---- MODULE Spec2Model ----
(***************************************************************************)
(* Verification model of the motorcycle OEM crawler (moto-scraper-v1).     *)
(*                                                                         *)
(*   Spec       PageDiscoveryEngine.discover_all_pages: the strategies in  *)
(*              their fixed order, every page.goto and every explicit wait *)
(*   SpecBfs    one pass of _discover_via_link_following, with the weak    *)
(*              fairness of a coroutine whose awaits all end               *)
(*   SpecState  PageDiscoveryEngine.load_state / save_state on arbitrary   *)
(*              state files                                                *)
(*   SpecCrawl  MotorcycleCrawler.crawl and main(): discovery, grouping,   *)
(*              per-group processing, the writers, the exit status         *)
(*   SpecMerge  DataMerger.merge_bike_data on lists of page records        *)
(*   SpecImage  the image loop of _process_bike: download_image for every  *)
(*              image of a merged record, then the writers                 *)
(*   SpecUrl    PageDiscoveryEngine.normalize_url, applied twice           *)
(*   SpecGroup  BikePageClassifier.group_related_pages on lists of pages   *)
(*   SpecTask   crawl as a task of the event loop, await by await, with    *)
(*              interrupts                                                 *)
(*   SpecSite   the page loop of SiteCrawler.crawl and its periodic save   *)
(*   SpecParse  parse_spec_value on arbitrary texts                        *)
(*   SpecConvert   convert_to_metric on values and unit pairs              *)
(*   SpecBikePage  BikePageClassifier.is_bike_page on URLs and contents    *)
(*   SpecNormalize DataNormalizer._normalize_specifications on raw dicts   *)
(*   SpecClassify  extract_model_info and the classification loop of crawl *)
(***************************************************************************)
EXTENDS FiniteSets, Integers, Sequences, TLC

(***************************************************************************)
(* Bounds of the model.                                                    *)
(***************************************************************************)
NPages == 2        \* product pages the site exposes
MaxSitemap == 2    \* <loc> entries returned by check_sitemap
MaxLinks == 1       \* product links one menu, page or result list exposes
MaxModels == 11    \* bike models of the crawled site
MaxGroupPages == 3 \* records passed to merge_bike_data
NContents == 2     \* distinct image contents the site serves
MaxIndex == 1      \* highest image index passed to download_image
MaxRecords == 2    \* entity groups of one manufacturer, model and year
MaxUrlLen == 4     \* tokens of a URL after its scheme and host
MaxPageDicts == 3  \* page dicts passed to group_related_pages
MaxTaskGroups == 2 \* groups the task of crawl processes
MaxTaskPages == 2  \* pages of one group
MaxTaskImages == 2 \* images of one merged record
MaxInterrupts == 2 \* interrupts delivered during one crawl
MaxSiteUrls == 8   \* URLs of all_bike_urls in SiteCrawler.crawl
MaxTextLen == 4    \* characters of a text passed to parse_spec_value
MaxValue == 440    \* highest value passed to convert_to_metric
MaxSegments == 2   \* path segments of a URL passed to is_bike_page
MaxWords == 3      \* words of a content passed to is_bike_page
MaxRawSpecs == 2   \* entries of a raw_specs dict
MaxPathLen == 3    \* path segments of a page URL

(***************************************************************************)
(* Program constants.  Times are in milliseconds.                          *)
(***************************************************************************)
MinRateLimit == 3000        \* max(rate_limit_seconds, 3.0)
BfsMaxDepth == 2            \* _discover_via_link_following(max_depth=2)
SampleLimit == 20           \* list(self.discovered_urls)[:20]
SisterLimit == 30           \* list(all_links)[:30]

NULL == "null"

Min(a, b) == IF a < b THEN a ELSE b
Max(a, b) == IF a > b THEN a ELSE b

\* The orders in which a Python set can be iterated.
Perms(S) ==
    {s \in [1..Cardinality(S) -> S] : \A i, j \in 1..Cardinality(S) : s[i] = s[j] => i = j}

\* lst[:n]
Take(lst, n) == SubSeq(lst, 1, Min(n, Len(lst)))

SeqsUpTo(S, n) == UNION {[1..k -> S] : k \in 0..n}

(***************************************************************************)
(* URLs.  base_url is the engine's base; the site's product pages are      *)
(* already-normalized URLs below it.                                       *)
(***************************************************************************)
BaseUrl == "https://oem.example"
OtherBaseUrl == "https://other.example"
PagePool == <<"https://oem.example/ww/en/bikes/a", "https://oem.example/ww/en/bikes/b",
              "https://oem.example/ww/en/bikes/c", "https://oem.example/ww/en/bikes/d">>
Pages == {PagePool[i] : i \in 1..NPages}

urls_to_try == <<"https://oem.example/ca/en/home", "https://oem.example/us/en/home",
                 "https://oem.example/ww/en/home", BaseUrl>>
heritage_urls == <<"https://oem.example/ww/en/heritage/bikes",
                   "https://oem.example/ca/en/heritage/bikes",
                   "https://oem.example/us/en/heritage/bikes">>
key_urls == <<"https://oem.example/ww/en/heritage/bikes/", "https://oem.example/ca/en/home">>

\* normalize_url of a link to the first key page: path.rstrip('/')
SeedPage == "https://oem.example/ww/en/heritage/bikes"

\* normalize_url on the URLs of the model, which are lower case and carry no
\* fragment: only the first key URL ends in a slash
NormalizedURL(url) == IF url = key_urls[1] THEN SeedPage ELSE url

VARIABLES
    \* PageDiscoveryEngine
    visited_urls, discovered_urls, pending_urls, rate_limit_seconds,
    state_file,        \* what is on disk at self.state_file
    \* discover_all_pages (the generator's frame)
    pc, idx, todo, work, found, to_visit, visited_in_pass,
    \* the site
    sitemap_live,      \* the sitemap request reaches the site and lists pages
    \* observations
    yield_count,       \* how often each URL was yielded (2 = twice or more)
    revisited,         \* targets of page.goto that were in visited_urls
    waited,            \* explicit waits since the last page.goto
    short_gap,         \* two consecutive page.goto were less than rate_limit_seconds apart
    has_nav,           \* a page.goto has been issued
    pass_gotos,        \* <<url, depth>> of every page.goto of the link-following pass
    \* MotorcycleCrawler.crawl and main()
    cpc,               \* position in crawl / main
    crawl_urls,        \* crawl's local list discovered_urls
    grouped,           \* group_related_pages(bike_pages), in insertion order
    gi, pi,            \* group of the for loop in crawl, page of the loop in _process_bike
    pages_data,        \* pages_data of the running _process_bike (page types)
    handed,            \* <<group key, writer>> for each merged record a writer was called with
    unwritable,        \* model whose output folder cannot be written, NULL for none
    completed,         \* crawl reached "Crawl complete!"
    exit_code,         \* exit status of the process, NULL while it runs
    \* DataMerger.merge_bike_data
    merged,            \* the record merge_bike_data returned
    mpc,               \* "call" before merge_bike_data is called on its own, then how it ended
    pages_in,          \* the list as the caller passed it
    \* ImageDownloader
    image_hashes,      \* self.image_hashes
    files,             \* the files under base_output_dir: path -> content
    stored,            \* <<hash, path>> of every completed write
    last_call,         \* what the last download_image call met and did
    \* the image loop of _process_bike
    ipc,               \* "idle", "loop" inside the for loop, "written" after the writers
    img_n,             \* len(merged_bike_data.images[:10])
    img_idx,           \* idx of the next download_image call
    img_results,       \* status and result of every call made for this record
    records_written,   \* write_bike_markdown calls that returned
    \* a function of the program called on its own
    args,              \* the arguments of the call
    result,            \* what the call returned
    fpc,               \* "idle", "call" before the call, then how far the caller got
    \* crawl as a task of the event loop, await by await
    tpc,               \* the phase of crawl the task is in, or how it left crawl
    steps,             \* the awaits still ahead of the task in this phase
    awaiting,          \* what the task is suspended on, NULL while it runs
    in_flight,         \* the operations started and not yet finished
    groups_left, pages_left,   \* iterations the for loops still have to make
    extracted,         \* len(pages_data) of the running _process_bike
    bikes_processed,   \* crawl's count of the _process_bike calls that returned
    interrupts,        \* interrupts delivered to the task
    browser_up,        \* initialize_browser has returned
    raising,           \* the exception that leaves crawl after its finally, NULL for none
    exit_saves,        \* save_state calls made by the finally of crawl
    \* SiteCrawler (scripts/full_site_crawler.py); a URL is its place in all_bike_urls
    sc_visited_urls,   \* self.visited_urls
    sc_state_file,     \* visited_urls of crawl_state.json
    sc_i,              \* i of "for i, bike_url in enumerate(all_bike_urls, 1)"
    sc_last            \* what the loop met last: "skipped", "crawled", "failed"

engineVars == <<visited_urls, discovered_urls, pending_urls, rate_limit_seconds, state_file>>
genVars == <<pc, idx, todo, work, found, to_visit, visited_in_pass, sitemap_live>>
obsVars == <<yield_count, revisited, waited, short_gap, has_nav, pass_gotos>>
crawlVars == <<cpc, crawl_urls, grouped, gi, pi, pages_data, handed, unwritable, completed,
               exit_code>>
mergeVars == <<merged, mpc, pages_in>>
imageVars == <<image_hashes, files, stored, last_call, ipc, img_n, img_idx, img_results,
               records_written>>
callVars == <<args, result, fpc>>
taskVars == <<tpc, steps, awaiting, in_flight, groups_left, pages_left, extracted,
              bikes_processed, interrupts, browser_up, raising, exit_saves>>
siteVars == <<sc_visited_urls, sc_state_file, sc_i, sc_last>>
vars == <<engineVars, genVars, obsVars, crawlVars, mergeVars, imageVars, callVars, taskVars,
          siteVars>>

(***************************************************************************)
(* State files.  A file is absent, not JSON, or a JSON object whose three  *)
(* URL lists are each a list of strings or of another shape.               *)
(***************************************************************************)
Absent == [kind |-> "absent"]
Corrupt == [kind |-> "corrupt"]

\* a JSON value: a list of strings, or a number where a list is expected
ListOf(items) == [shape |-> "list", items |-> items]
BadShape == [shape |-> "number", items |-> {}]
BadShapeSeq == [shape |-> "number", items |-> <<>>]

JsonFile(b, v, d, p) ==
    [kind |-> "json", base_url |-> b, visited_urls |-> ListOf(v), discovered_urls |-> ListOf(d),
     pending_urls |-> ListOf(p)]

\* set(x) / deque(x) raise TypeError on a value that is not iterable
Raises(x) == x.shape # "list"

\* load_state: the engine's three collections after the call.  The three
\* assignments happen one after the other inside one try block whose handler
\* only logs.
LoadedVisited(f, old) ==
    IF f.kind # "json" \/ f.base_url # BaseUrl THEN old
    ELSE IF Raises(f.visited_urls) THEN old
    ELSE f.visited_urls.items

LoadedDiscovered(f, old) ==
    IF f.kind # "json" \/ f.base_url # BaseUrl THEN old
    ELSE IF Raises(f.visited_urls) \/ Raises(f.discovered_urls) THEN old
    ELSE f.discovered_urls.items

LoadedPending(f, old) ==
    IF f.kind # "json" \/ f.base_url # BaseUrl THEN old
    ELSE IF Raises(f.visited_urls) \/ Raises(f.discovered_urls) \/ Raises(f.pending_urls) THEN old
    ELSE f.pending_urls.items

load_state ==
    /\ visited_urls' = LoadedVisited(state_file, visited_urls)
    /\ discovered_urls' = LoadedDiscovered(state_file, discovered_urls)
    /\ pending_urls' = LoadedPending(state_file, pending_urls)

\* save_state: json.dump of the three collections and base_url
SavedFile == JsonFile(BaseUrl, visited_urls, discovered_urls, pending_urls)

save_state == state_file' = SavedFile

(***************************************************************************)
(* Waiting and navigating.                                                 *)
(***************************************************************************)
\* asyncio.sleep(d) / page.wait_for_timeout(d) after w of waiting; a wait
\* longer than rate_limit_seconds counts as rate_limit_seconds
Slept(w, d) == Min(w + d, rate_limit_seconds)

\* page.goto(url) issued after w of waiting since the previous page.goto
Goto(url, w) ==
    /\ revisited' = revisited \cup ({url} \cap visited_urls)
    /\ short_gap' = (short_gap \/ (has_nav /\ w < rate_limit_seconds))
    /\ has_nav' = TRUE
    /\ pass_gotos' = IF pc = "bfs" THEN Append(pass_gotos, Head(to_visit)) ELSE pass_gotos

\* "if url not in self.visited_urls: self.discovered_urls.add(url); yield url"
Yields(url) == url \notin visited_urls

Bump(cnt, url) == [cnt EXCEPT ![url] = Min(cnt[url] + 1, 2)]

(***************************************************************************)
(* discover_all_pages                                                      *)
(***************************************************************************)
\* the sets of product links one query of the browser can return
LinkSets == {S \in SUBSET Pages : Cardinality(S) <= MaxLinks}

\* rate_limit as passed by MotorcycleCrawler: the 2.0 default, and --rate-limit 5
RateLimitInputs == {2000, 5000}

\* State files a run of the crawler starts from
RunFiles == {Absent} \cup {JsonFile(BaseUrl, v, v, <<>>) : v \in SUBSET Pages}

(***************************************************************************)
(* DataMerger.  A BikeData is modelled by its specifications: six blocks,  *)
(* each a function from the block's fields to values, None standing for a  *)
(* field that is not set and NoBlock for a block that is None.             *)
(***************************************************************************)
None == 0
FieldValues == {1, 2}
NoBlock == <<>>
BlockIsNone == -1     \* input choice: the block of the record is None

Blocks == {"engine", "transmission", "chassis", "dimensions", "performance", "electrical"}

Fields(b) ==
    CASE b = "engine" ->
           {"type", "displacement_cc", "bore_mm", "stroke_mm", "compression_ratio",
            "max_power_kw", "max_power_rpm", "max_torque_nm", "max_torque_rpm",
            "fuel_system", "ignition", "starter", "lubrication"}
      [] b = "transmission" -> {"type", "clutch", "final_drive"}
      [] b = "chassis" ->
           {"frame_type", "front_suspension", "rear_suspension", "front_brake",
            "rear_brake", "front_tire", "rear_tire"}
      [] b = "dimensions" ->
           {"length_mm", "width_mm", "height_mm", "wheelbase_mm", "ground_clearance_mm",
            "seat_height_mm", "dry_weight_kg", "wet_weight_kg", "fuel_capacity_liters"}
      [] b = "performance" ->
           {"top_speed_kmh", "acceleration_0_100_kmh_sec",
            "fuel_consumption_liters_per_100km"}
      [] b = "electrical" -> {"battery_voltage", "alternator", "headlight", "tail_light"}

\* BikeSpecifications(): every block built by its default factory
BikeSpecifications == [b \in Blocks |-> [f \in Fields(b) |-> None]]

\* a BikeData with these specifications and the default (empty) lists
BikeData(specs) ==
    [specifications |-> specs, features |-> <<>>, colors |-> <<>>, images |-> <<>>,
     source_urls |-> <<>>]

Range(lst) == {lst[i] : i \in DOMAIN lst}

PageData(bd, t) == [bike_data |-> bd, page_type |-> t]

\* self.page_type_priority.get(page_type, 0)
Priority(t) ==
    CASE t = "specs" -> 3
      [] t = "main" -> 2
      [] t = "features" -> 1
      [] t = "gallery" -> 0
      [] t = "other" -> 0
      [] OTHER -> 0

\* the reverse of a list
Reversed(lst) == [i \in DOMAIN lst |-> lst[Len(lst) + 1 - i]]

\* a descending sort that is not stable: records of equal priority come out
\* in the reverse of their order in the list
SortedByPriorityUnstable(lst) ==
    LET OfPriority(n) == Reversed(SelectSeq(lst, LAMBDA x : Priority(x.page_type) = n))
    IN  OfPriority(3) \o OfPriority(2) \o OfPriority(1) \o OfPriority(0)

\* pages_data.sort(key=priority, reverse=True): stable, so records of equal
\* priority keep the order of the list
SortedByPriority(lst) ==
    LET OfPriority(n) == SelectSeq(lst, LAMBDA x : Priority(x.page_type) = n)
    IN  OfPriority(3) \o OfPriority(2) \o OfPriority(1) \o OfPriority(0)

\* a _merge_specs that overwrites: setattr whenever spec2 has a value
MergeFieldOverwriting(value1, value2) ==
    IF value2 # None THEN value2 ELSE value1

\* if value1 is None and value2 is not None: setattr(spec1, field_name, value2)
MergeField(value1, value2) ==
    IF value1 = None /\ value2 # None THEN value2 ELSE value1

\* a _merge_specs that takes the later block whenever there is one
merge_specs_replacing(spec1, spec2) ==
    IF spec2 = NoBlock THEN spec1 ELSE spec2

\* _merge_specs: "not spec" holds of None only, a model object being truthy
merge_specs(spec1, spec2) ==
    IF spec1 = NoBlock THEN spec2
    ELSE IF spec2 = NoBlock THEN spec1
    ELSE [f \in DOMAIN spec1 |-> MergeField(spec1[f], spec2[f])]

\* feature.strip() on the feature texts of the model
Strip(feature) == IF feature = " abs" THEN "abs" ELSE feature

\* the order-preserving deduplication loops: the first occurrence is kept
RECURSIVE Unique(_, _)
Unique(lst, kept) ==
    IF lst = <<>> THEN kept
    ELSE Unique(Tail(lst), IF Head(lst) \in Range(kept) THEN kept
                           ELSE Append(kept, Head(lst)))

\* combine_features: strip, drop empty texts, deduplicate in order
combine_features(all_features) ==
    Unique(SelectSeq([i \in DOMAIN all_features |-> Strip(all_features[i])],
                     LAMBDA feature_clean : feature_clean # ""), <<>>)

\* "for page_info in pages_data[1:]" from record k of the sorted list on.
\* acc.merged is the record under construction; acc.shared[b] is the index
\* of the input record whose block object merged.specifications.b is since
\* _merge_specs returned spec2 itself, 0 while it is merged's own.
RECURSIVE MergeFrom(_, _, _)
MergeFrom(acc, lst, k) ==
    IF k > Len(lst) THEN acc
    ELSE LET bike_data == lst[k].bike_data
             theirs == bike_data.specifications
             mine == acc.merged.specifications
         IN  MergeFrom(
               [merged |->
                  [specifications |-> [b \in Blocks |-> merge_specs(mine[b], theirs[b])],
                   features |-> combine_features(acc.merged.features \o bike_data.features),
                   colors |-> acc.merged.colors \o bike_data.colors,
                   images |-> acc.merged.images \o bike_data.images,
                   source_urls |-> acc.merged.source_urls \o bike_data.source_urls],
                shared |-> [b \in Blocks |->
                              IF mine[b] = NoBlock /\ theirs[b] # NoBlock THEN k
                              ELSE acc.shared[b]]],
               lst, k + 1)

\* merge_bike_data on a list of two or more records, sorted already: the
\* result and the list as the call leaves it (a block object shared with
\* the result has received the result's later fills).  The images are
\* deduplicated by URL; colors and source_urls of the result hold what
\* list(set(...)) is applied to.
MergeSorted(lst) ==
    LET acc == MergeFrom([merged |-> lst[1].bike_data, shared |-> [b \in Blocks |-> 0]],
                         lst, 2)
    IN  [merged |-> [acc.merged EXCEPT !.images = Unique(@, <<>>)],
         pages_data |->
           [k \in 1..Len(lst) |->
              PageData([lst[k].bike_data EXCEPT !.specifications =
                          [b \in Blocks |->
                             IF acc.shared[b] = k
                             THEN acc.merged.specifications[b]
                             ELSE lst[k].bike_data.specifications[b]]],
                       lst[k].page_type)]]

\* a merge_bike_data without the shortcut for one record
IsSingleNever(lst) == FALSE

\* if len(pages_data) == 1
IsSingle(lst) == Len(lst) = 1

\* merge_bike_data(pages_data): whether it raises ValueError, the record it
\* returns and the caller's list afterwards
merge_bike_data(lst) ==
    IF lst = <<>> THEN [raised |-> TRUE, merged |-> BikeData(BikeSpecifications),
                        pages_data |-> lst, rebuilt |-> FALSE]
    ELSE IF IsSingle(lst) THEN [raised |-> FALSE, merged |-> lst[1].bike_data,
                                pages_data |-> lst, rebuilt |-> FALSE]
    ELSE LET r == MergeSorted(SortedByPriority(lst))
         IN  [raised |-> FALSE, merged |-> r.merged, pages_data |-> r.pages_data,
              rebuilt |-> TRUE]

\* the records the call may return: list(set(...)) puts the colors and the
\* source URLs of a rebuilt record in any order
Returned(r) ==
    IF r.rebuilt
    THEN {[r.merged EXCEPT !.colors = c, !.source_urls = u] :
             c \in Perms(Range(r.merged.colors)), u \in Perms(Range(r.merged.source_urls))}
    ELSE {r.merged}

PageTypes == {"specs", "main", "features", "gallery"}

\* the fields the input records differ on, one run on each
SpecFieldSamples ==
    {<<"engine", "max_power_kw">>, <<"dimensions", "seat_height_mm">>,
     <<"electrical", "battery_voltage">>}

\* a record whose block bf[1] is None, or has field bf[2] set to v
RecordWith(bf, v) ==
    BikeData([b \in Blocks |->
                IF b # bf[1] THEN BikeSpecifications[b]
                ELSE IF v = BlockIsNone THEN NoBlock
                ELSE [f \in Fields(b) |-> IF f = bf[2] THEN v ELSE None]])

\* what one record of an input list is built from
RecordChoices ==
    [v : {None} \cup FieldValues, t : PageTypes] \cup {[v |-> BlockIsNone, t |-> "stories"]}

MergeInput(bf, choice) ==
    [k \in DOMAIN choice |-> PageData(RecordWith(bf, choice[k].v), choice[k].t)]

\* the lists of a record: empty, with repetitions, and in an order of their own
ListSamples ==
    {[features |-> <<>>, colors |-> <<>>, images |-> <<>>, source_urls |-> <<>>],
     [features |-> <<"abs", " abs", "">>, colors |-> <<"red", "red">>,
      images |-> <<"img-1", "img-1">>, source_urls |-> <<"url-1", "url-1">>],
     [features |-> <<"tc", "abs">>, colors |-> <<"red", "blue">>,
      images |-> <<"img-2", "img-1">>, source_urls |-> <<"url-2">>]}

\* a record with default specifications and these lists
RecordListing(l) ==
    [specifications |-> BikeSpecifications, features |-> l.features, colors |-> l.colors,
     images |-> l.images, source_urls |-> l.source_urls]

ListChoices == [l : ListSamples, t : {"specs", "main"}]

MergeListInput(choice) ==
    [k \in DOMAIN choice |-> PageData(RecordListing(choice[k].l), choice[k].t)]

(***************************************************************************)
(* ImageDownloader                                                         *)
(***************************************************************************)
\* the model segment of a product URL
ModelName(i) == "model-" \o ToString(i)

Contents == 1..NContents
ImageIndexes == 0..MaxIndex
ImageModel == ModelName(1)
ImageYear == "2024"

\* hashlib.sha256(image_data).hexdigest(); distinct contents, distinct digests
Sha256(c) == <<"sha256", c>>

\* the extension is read off the URL
Extensions == {"jpg", "png", "webp"}

\* f"{index:03d}"
Pad3(i) == IF i < 10 THEN "00" \o ToString(i)
           ELSE IF i < 100 THEN "0" \o ToString(i)
           ELSE ToString(i)

\* str(filepath.relative_to(base_output_dir))
ImagePath(manufacturer, model, year, index, ext) ==
    manufacturer \o "/" \o model \o "/" \o year \o "/"
    \o manufacturer \o "_" \o model \o "_" \o year \o "_" \o Pad3(index) \o "." \o ext

NoCall == [status |-> "none", hash |-> Sha256(0), seen |-> FALSE, wrote |-> FALSE,
           result |-> NULL]

\* no SiteCrawler exists
NoSiteCrawl ==
    /\ sc_visited_urls = {}
    /\ sc_state_file = {}
    /\ sc_i = 0
    /\ sc_last = NULL

\* crawl is not run as a task
NoTask ==
    /\ tpc = "off"
    /\ steps = <<>>
    /\ awaiting = NULL
    /\ in_flight = <<>>
    /\ groups_left = 0
    /\ pages_left = 0
    /\ extracted = 0
    /\ bikes_processed = 0
    /\ interrupts = 0
    /\ browser_up = FALSE
    /\ raising = NULL
    /\ exit_saves = 0

\* no function is called on its own
NoCallPending ==
    /\ args = <<>>
    /\ result = <<>>
    /\ fpc = "idle"

InitEngine(state_files) ==
    /\ visited_urls = {}
    /\ discovered_urls = {}
    /\ pending_urls = <<>>
    /\ \E r \in RateLimitInputs : rate_limit_seconds = Max(r, MinRateLimit)
    /\ state_file \in state_files
    /\ idx = 1
    /\ todo = <<>>
    /\ work = <<>>
    /\ found = {}
    /\ to_visit = <<>>
    /\ visited_in_pass = {}
    /\ sitemap_live \in BOOLEAN
    /\ yield_count = [u \in Pages \cup {SeedPage} |-> 0]
    /\ revisited = {}
    /\ waited = 0
    /\ short_gap = FALSE
    /\ has_nav = FALSE
    /\ pass_gotos = <<>>
    /\ crawl_urls = <<>>
    /\ grouped = <<>>
    /\ gi = 1
    /\ pi = 1
    /\ handed = {}
    /\ unwritable \in {NULL, ModelName(1)}
    /\ completed = FALSE
    /\ exit_code = NULL
    /\ merged = BikeData(BikeSpecifications)
    /\ image_hashes = {}
    /\ files = <<>>
    /\ stored = {}
    /\ last_call = NoCall
    /\ ipc = "idle"
    /\ img_n = 0
    /\ img_idx = 0
    /\ img_results = <<>>
    /\ records_written = 0

\* the generator is driven on its own; crawl is not running
Init ==
    /\ InitEngine(RunFiles)
    /\ unwritable = NULL
    /\ pc = "load"
    /\ cpc = "off"
    /\ mpc = "off"
    /\ pages_data = <<>>
    /\ pages_in = <<>>
    /\ NoCallPending
    /\ NoTask
    /\ NoSiteCrawl

\* self.load_state() at the head of discover_all_pages
LoadState ==
    /\ pc = "load"
    /\ load_state
    /\ pc' = "home"
    /\ UNCHANGED <<rate_limit_seconds, state_file, idx, todo, work, found, to_visit,
                   visited_in_pass, sitemap_live, obsVars>>
    /\ UNCHANGED <<crawlVars, mergeVars, imageVars, callVars, taskVars, siteVars>>

\* One pass of "for url in urls_to_try": sleep 0.5, page.goto, then either
\* an exception (continue), a 403 or Access Denied page (continue after the
\* 3+1+1 s of waits) or success (break, accept cookies, wait 1 s).
HomeOutcomes == {"error", "403", "denied", "ok"}

HomeAttempt ==
    /\ pc = "home"
    /\ \E outcome \in HomeOutcomes :
        /\ Goto(urls_to_try[idx], Slept(waited, 500))
        /\ waited' = CASE outcome = "error" -> 0
                        [] outcome = "ok" -> Slept(0, 3000 + 1000 + 1000 + 1000)
                        [] OTHER -> Slept(0, 3000 + 1000 + 1000)
        /\ pc' = IF outcome = "ok" THEN "sitemap"
                 ELSE IF idx < Len(urls_to_try) THEN "home"
                 ELSE "fatal"     \* raise RuntimeError("Could not access website ...")
        /\ idx' = IF outcome # "ok" /\ idx < Len(urls_to_try) THEN idx + 1 ELSE 1
    /\ UNCHANGED <<engineVars, todo, work, found, to_visit, visited_in_pass, sitemap_live,
                   yield_count>>
    /\ UNCHANGED <<crawlVars, mergeVars, imageVars, callVars, taskVars, siteVars>>

\* check_sitemap: the normalized internal <loc> entries, in document order,
\* repetitions included; empty when neither sitemap can be fetched.
SitemapResults ==
    IF sitemap_live THEN SeqsUpTo(Pages, MaxSitemap) \ {<<>>} ELSE {<<>>}

CheckSitemap ==
    /\ pc = "sitemap"
    /\ todo' \in SitemapResults
    /\ pc' = "yield_sitemap"
    /\ UNCHANGED <<engineVars, idx, work, found, to_visit, visited_in_pass, sitemap_live,
                   obsVars>>
    /\ UNCHANGED <<crawlVars, mergeVars, imageVars, callVars, taskVars, siteVars>>

\* One pass of any of the "for url in <result>: if url not in
\* self.visited_urls: self.discovered_urls.add(url); yield url" loops.
YieldPcs == {"yield_sitemap", "yield_hamburger", "yield_heritage", "yield_dropdown",
             "yield_search", "yield_follow", "yield_bfs"}

YieldNext ==
    /\ pc \in YieldPcs
    /\ todo # <<>>
    /\ LET url == Head(todo) IN
        /\ discovered_urls' = IF Yields(url) THEN discovered_urls \cup {url} ELSE discovered_urls
        /\ yield_count' = IF Yields(url) THEN Bump(yield_count, url) ELSE yield_count
    /\ todo' = Tail(todo)
    /\ UNCHANGED <<visited_urls, pending_urls, rate_limit_seconds, state_file, pc, idx, work,
                   found, to_visit, visited_in_pass, sitemap_live, revisited, waited, short_gap,
                   has_nav, pass_gotos>>
    /\ UNCHANGED <<crawlVars, mergeVars, imageVars, callVars, taskVars, siteVars>>

\* end of the sitemap loop: await asyncio.sleep(self.rate_limit_seconds)
SitemapDone ==
    /\ pc = "yield_sitemap"
    /\ todo = <<>>
    /\ waited' = Slept(waited, rate_limit_seconds)
    /\ pc' = "hamburger"
    /\ UNCHANGED <<engineVars, idx, todo, work, found, to_visit, visited_in_pass, sitemap_live,
                   yield_count, revisited, short_gap, has_nav, pass_gotos>>
    /\ UNCHANGED <<crawlVars, mergeVars, imageVars, callVars, taskVars, siteVars>>

(***************************************************************************)
(* _discover_via_hamburger_menu: open the menu, collect all_links, then    *)
(* visit the first 30 of them for sister links.                            *)
(***************************************************************************)
DiscoverViaHamburgerMenu ==
    /\ pc = "hamburger"
    /\ \E clicked \in BOOLEAN, all_links \in LinkSets, scrolled \in LinkSets :
        \* "Could not find hamburger menu": return after the first 2 s wait
        /\ clicked \/ (all_links = {} /\ scrolled = {})
        /\ waited' = IF clicked THEN Slept(waited, 2000 + 1500 + 500 + 1000)
                     ELSE Slept(waited, 2000)
        /\ found' = all_links \cup scrolled
        /\ \E order \in Perms(all_links) : work' = Take(order, SisterLimit)
    /\ pc' = "sister"
    /\ UNCHANGED <<engineVars, idx, todo, to_visit, visited_in_pass, sitemap_live,
                   yield_count, revisited, short_gap, has_nav, pass_gotos>>
    /\ UNCHANGED <<crawlVars, mergeVars, imageVars, callVars, taskVars, siteVars>>

\* One pass of "for i, bike_url in enumerate(sample_links, 1)":
\* _discover_sister_links_from_page (page.goto, waits, links; its own
\* handler swallows every error) and then the rate-limit sleep.
SisterVisit ==
    /\ pc = "sister"
    /\ work # <<>>
    /\ Goto(Head(work), waited)
    /\ \E ok \in BOOLEAN, links \in LinkSets :
        /\ ok \/ links = {}
        /\ found' = found \cup links
        /\ waited' = Slept(IF ok THEN Slept(0, 2000 + 1000 + 1000 + 1000) ELSE 0,
                           rate_limit_seconds)
    /\ work' = Tail(work)
    /\ UNCHANGED <<engineVars, pc, idx, todo, to_visit, visited_in_pass, sitemap_live,
                   yield_count>>
    /\ UNCHANGED <<crawlVars, mergeVars, imageVars, callVars, taskVars, siteVars>>

\* return discovered; "for url in hamburger_urls" starts
SisterDone ==
    /\ pc = "sister"
    /\ work = <<>>
    /\ todo' \in Perms(found)
    /\ found' = {}
    /\ pc' = "yield_hamburger"
    /\ UNCHANGED <<engineVars, idx, work, to_visit, visited_in_pass, sitemap_live, obsVars>>
    /\ UNCHANGED <<crawlVars, mergeVars, imageVars, callVars, taskVars, siteVars>>

HamburgerYielded ==
    /\ pc = "yield_hamburger"
    /\ todo = <<>>
    /\ pc' = "heritage"
    /\ idx' = 1
    /\ UNCHANGED <<engineVars, todo, work, found, to_visit, visited_in_pass, sitemap_live,
                   obsVars>>
    /\ UNCHANGED <<crawlVars, mergeVars, imageVars, callVars, taskVars, siteVars>>

(***************************************************************************)
(* _discover_heritage_bikes: up to three page.goto, then one click per tab *)
(***************************************************************************)
HeritageOutcomes == {"error", "denied", "ok"}

HeritageAttempt ==
    /\ pc = "heritage"
    /\ Goto(heritage_urls[idx], waited)
    /\ \E outcome \in HeritageOutcomes, has_tabs \in BOOLEAN, links \in LinkSets :
        /\ (outcome = "ok" /\ has_tabs) \/ links = {}
        /\ waited' = CASE outcome = "error" -> 0
                        [] outcome = "denied" -> Slept(0, 2000)
                        [] OTHER -> IF has_tabs THEN Slept(0, 2000 + 1000 + 2000 + rate_limit_seconds)
                                    ELSE Slept(0, 2000 + 1000)
        /\ IF outcome # "ok" /\ idx < Len(heritage_urls)
           THEN /\ idx' = idx + 1
                /\ UNCHANGED <<pc, todo>>
           ELSE /\ idx' = 1
                /\ pc' = "yield_heritage"
                /\ todo' \in Perms(links)
    /\ UNCHANGED <<engineVars, work, found, to_visit, visited_in_pass, sitemap_live,
                   yield_count>>
    /\ UNCHANGED <<crawlVars, mergeVars, imageVars, callVars, taskVars, siteVars>>

HeritageYielded ==
    /\ pc = "yield_heritage"
    /\ todo = <<>>
    /\ pc' = "dropdown"
    /\ UNCHANGED <<engineVars, idx, todo, work, found, to_visit, visited_in_pass, sitemap_live,
                   obsVars>>
    /\ UNCHANGED <<crawlVars, mergeVars, imageVars, callVars, taskVars, siteVars>>

(***************************************************************************)
(* _discover_from_dropdown: a click, no navigation                         *)
(***************************************************************************)
DiscoverFromDropdown ==
    /\ pc = "dropdown"
    /\ \E models_clicked \in BOOLEAN, links \in LinkSets :
        /\ models_clicked \/ links = {}
        /\ waited' = IF models_clicked THEN Slept(waited, 1000) ELSE waited
        /\ todo' \in Perms(links)
    /\ pc' = "yield_dropdown"
    /\ UNCHANGED <<engineVars, idx, work, found, to_visit, visited_in_pass, sitemap_live,
                   yield_count, revisited, short_gap, has_nav, pass_gotos>>
    /\ UNCHANGED <<crawlVars, mergeVars, imageVars, callVars, taskVars, siteVars>>

DropdownYielded ==
    /\ pc = "yield_dropdown"
    /\ todo = <<>>
    /\ pc' = "search"
    /\ UNCHANGED <<engineVars, idx, todo, work, found, to_visit, visited_in_pass, sitemap_live,
                   obsVars>>
    /\ UNCHANGED <<crawlVars, mergeVars, imageVars, callVars, taskVars, siteVars>>

(***************************************************************************)
(* _discover_via_search: page.goto(base_url), then three search terms      *)
(***************************************************************************)
SearchOutcomes == {"error", "no_search", "searched"}

DiscoverViaSearch ==
    /\ pc = "search"
    /\ Goto(BaseUrl, waited)
    /\ \E outcome \in SearchOutcomes, links \in LinkSets :
        /\ outcome = "searched" \/ links = {}
        /\ waited' = CASE outcome = "error" -> 0
                        [] outcome = "no_search" -> Slept(0, 1000)
                        [] OTHER -> Slept(0, 1000 + 1000 + 3 * (2000 + 1000))
        /\ todo' \in Perms(links)
    /\ pc' = "yield_search"
    /\ UNCHANGED <<engineVars, idx, work, found, to_visit, visited_in_pass, sitemap_live,
                   yield_count>>
    /\ UNCHANGED <<crawlVars, mergeVars, imageVars, callVars, taskVars, siteVars>>

\* "if self.discovered_urls: sample_urls = list(self.discovered_urls)[:20]"
SearchYielded ==
    /\ pc = "yield_search"
    /\ todo = <<>>
    /\ IF discovered_urls # {}
       THEN /\ \E order \in Perms(discovered_urls) : work' = Take(order, SampleLimit)
            /\ pc' = "follow"
       ELSE /\ work' = <<>>
            /\ pc' = "bfs_start"
    /\ found' = {}
    /\ UNCHANGED <<engineVars, idx, todo, to_visit, visited_in_pass, sitemap_live, obsVars>>
    /\ UNCHANGED <<crawlVars, mergeVars, imageVars, callVars, taskVars, siteVars>>

(***************************************************************************)
(* _follow_links_from_pages: one page.goto per sampled URL                 *)
(***************************************************************************)
FollowVisit ==
    /\ pc = "follow"
    /\ work # <<>>
    /\ Goto(Head(work), waited)
    /\ \E ok \in BOOLEAN, links \in LinkSets :
        /\ ok \/ links = {}
        /\ found' = found \cup links
        \* the rate-limit sleep is the last statement of the try block
        /\ waited' = IF ok THEN Slept(Slept(0, 2000 + 1000 + 1000), rate_limit_seconds) ELSE 0
    /\ work' = Tail(work)
    /\ UNCHANGED <<engineVars, pc, idx, todo, to_visit, visited_in_pass, sitemap_live,
                   yield_count>>
    /\ UNCHANGED <<crawlVars, mergeVars, imageVars, callVars, taskVars, siteVars>>

FollowDone ==
    /\ pc = "follow"
    /\ work = <<>>
    /\ todo' \in Perms(found)
    /\ found' = {}
    /\ pc' = "yield_follow"
    /\ UNCHANGED <<engineVars, idx, work, to_visit, visited_in_pass, sitemap_live, obsVars>>
    /\ UNCHANGED <<crawlVars, mergeVars, imageVars, callVars, taskVars, siteVars>>

FollowYielded ==
    /\ pc = "yield_follow"
    /\ todo = <<>>
    /\ pc' = "bfs_start"
    /\ UNCHANGED <<engineVars, idx, todo, work, found, to_visit, visited_in_pass, sitemap_live,
                   obsVars>>
    /\ UNCHANGED <<crawlVars, mergeVars, imageVars, callVars, taskVars, siteVars>>

(***************************************************************************)
(* _discover_via_link_following: bounded BFS from key_urls                 *)
(***************************************************************************)
\* links a visited page can expose that pass the '/bikes/', '/heritage/',
\* '/model' filter, after urljoin and normalize_url
\* the links of a page that pass is_internal_url and the keyword test, after
\* urljoin and normalize_url: product pages and the first key page
BfsLinks == {S \in SUBSET (Pages \cup {SeedPage}) : Cardinality(S) <= MaxLinks}

BfsStart ==
    /\ pc = "bfs_start"
    /\ to_visit' = [i \in 1..Len(key_urls) |-> <<key_urls[i], 0>>]
    /\ visited_in_pass' = {}
    /\ found' = {}
    /\ pc' = "bfs"
    /\ UNCHANGED <<engineVars, idx, todo, work, sitemap_live, obsVars>>
    /\ UNCHANGED <<crawlVars, mergeVars, imageVars, callVars, taskVars, siteVars>>

\* the head of the work list is read and left in the list
Peeked(lst) == lst

\* to_visit.pop(0)
Popped(lst) == Tail(lst)

\* "if depth > max_depth or url in visited_in_pass: continue"
BfsSkips(url, depth) == depth > BfsMaxDepth \/ url \in visited_in_pass

\* One pass of "while to_visit"
BfsStep ==
    /\ pc = "bfs"
    /\ to_visit # <<>>
    /\ LET url == Head(to_visit)[1]
           depth == Head(to_visit)[2]
       IN  IF BfsSkips(url, depth)
           THEN /\ to_visit' = Popped(to_visit)
                /\ UNCHANGED <<visited_in_pass, found, obsVars>>
           ELSE /\ visited_in_pass' = visited_in_pass \cup {url}
                /\ Goto(url, waited)
                /\ \E ok \in BOOLEAN, links \in BfsLinks :
                    /\ ok \/ links = {}
                    /\ found' = found \cup links
                    /\ \E order \in Perms(links) :
                        to_visit' = Popped(to_visit) \o
                            (IF depth < BfsMaxDepth
                             THEN [i \in 1..Len(order) |-> <<order[i], depth + 1>>]
                             ELSE <<>>)
                    /\ waited' = IF ok THEN Slept(Slept(0, 1000), rate_limit_seconds) ELSE 0
                /\ UNCHANGED yield_count
    /\ UNCHANGED <<engineVars, pc, idx, todo, work, sitemap_live>>
    /\ UNCHANGED <<crawlVars, mergeVars, imageVars, callVars, taskVars, siteVars>>

BfsDone ==
    /\ pc = "bfs"
    /\ to_visit = <<>>
    /\ todo' \in Perms(found)
    /\ found' = {}
    /\ pc' = "yield_bfs"
    /\ UNCHANGED <<engineVars, idx, work, to_visit, visited_in_pass, sitemap_live, obsVars>>
    /\ UNCHANGED <<crawlVars, mergeVars, imageVars, callVars, taskVars, siteVars>>

\* "Save final state": self.save_state(), the generator is exhausted
BfsYielded ==
    /\ pc = "yield_bfs"
    /\ todo = <<>>
    /\ save_state
    /\ pc' = "done"
    /\ UNCHANGED <<visited_urls, discovered_urls, pending_urls, rate_limit_seconds, idx, todo,
                   work, found, to_visit, visited_in_pass, sitemap_live, obsVars>>
    /\ UNCHANGED <<crawlVars, mergeVars, imageVars, callVars, taskVars, siteVars>>

Next ==
    \/ LoadState
    \/ HomeAttempt
    \/ CheckSitemap
    \/ YieldNext
    \/ SitemapDone
    \/ DiscoverViaHamburgerMenu
    \/ SisterVisit
    \/ SisterDone
    \/ HamburgerYielded
    \/ HeritageAttempt
    \/ HeritageYielded
    \/ DiscoverFromDropdown
    \/ DropdownYielded
    \/ DiscoverViaSearch
    \/ SearchYielded
    \/ FollowVisit
    \/ FollowDone
    \/ FollowYielded
    \/ BfsStart
    \/ BfsStep
    \/ BfsDone
    \/ BfsYielded

Spec == Init /\ [][Next]_vars

(***************************************************************************)
(* SpecState: the engine's persistence on its own.  load_state and         *)
(* save_state are public methods; the file at state_file is whatever a     *)
(* previous run, another tool or an editor left there.                     *)
(***************************************************************************)
Unreadable == [kind |-> "unreadable"]    \* open() raises (permissions, directory, ...)

UrlListValues == {ListOf(v) : v \in SUBSET Pages} \cup {BadShape}
PendingValues == {ListOf(<<>>), ListOf(<<PagePool[1]>>), BadShapeSeq}

AnyFiles ==
    {Absent, Unreadable, Corrupt,
     JsonFile(OtherBaseUrl, Pages, Pages, <<PagePool[1]>>)}
        \cup [kind : {"json"}, base_url : {BaseUrl}, visited_urls : UrlListValues,
              discovered_urls : UrlListValues, pending_urls : PendingValues]

InitState ==
    /\ InitEngine({Absent})
    /\ rate_limit_seconds = MinRateLimit
    /\ sitemap_live
    /\ unwritable = NULL
    /\ pc = "idle"
    /\ cpc = "off"
    /\ mpc = "off"
    /\ pages_data = <<>>
    /\ pages_in = <<>>
    /\ NoCallPending
    /\ NoTask
    /\ NoSiteCrawl

\* the file is replaced from outside the engine
FileReplaced ==
    /\ pc = "idle"
    /\ state_file' \in AnyFiles
    /\ UNCHANGED <<visited_urls, discovered_urls, pending_urls, rate_limit_seconds, genVars,
                   obsVars>>
    /\ UNCHANGED <<crawlVars, mergeVars, imageVars, callVars, taskVars, siteVars>>

EngineLoad ==
    /\ pc = "idle"
    /\ load_state
    /\ UNCHANGED <<rate_limit_seconds, state_file, genVars, obsVars>>
    /\ UNCHANGED <<crawlVars, mergeVars, imageVars, callVars, taskVars, siteVars>>

EngineSave ==
    /\ pc = "idle"
    /\ save_state
    /\ UNCHANGED <<visited_urls, discovered_urls, pending_urls, rate_limit_seconds, genVars,
                   obsVars>>
    /\ UNCHANGED <<crawlVars, mergeVars, imageVars, callVars, taskVars, siteVars>>

\* a strategy hands one URL to the yield loop of discover_all_pages
EngineYield ==
    /\ pc = "idle"
    /\ \E url \in Pages :
        discovered_urls' = IF Yields(url) THEN discovered_urls \cup {url} ELSE discovered_urls
    /\ UNCHANGED <<visited_urls, pending_urls, rate_limit_seconds, state_file, genVars,
                   obsVars>>
    /\ UNCHANGED <<crawlVars, mergeVars, imageVars, callVars, taskVars, siteVars>>

NextState ==
    \/ FileReplaced
    \/ EngineLoad
    \/ EngineSave
    \/ EngineYield

SpecState == InitState /\ [][NextState]_vars

(***************************************************************************)
(* MotorcycleCrawler.crawl and the command line entry point.               *)
(* The head of discover_all_pages (load_state, the home page attempts) is  *)
(* the one above; the strategies after it are taken in one step that       *)
(* yields the URLs of the site.                                            *)
(***************************************************************************)
UrlLimit == 50        \* discovered_urls[:50]
GroupLimit == 10      \* list(grouped.items())[:10]
Manufacturer == "Ducati"

\* A URL of the site together with what the site and the classifier make of
\* it: is_bike_page(url, ""), get_page_type(url, ""), the result dict of
\* extract_model_info(url, "") and whether the page can be opened and scraped.
SiteUrl(u, b, t, mi, k) ==
    [url |-> u, bike |-> b, page_type |-> t, model_info |-> mi, ok |-> k]

ModelInfo(m, y, v) == [model |-> m, year |-> y, variant |-> v]

BikeUrl(i, t, y, k) ==
    SiteUrl(BaseUrl \o "/bikes/" \o (IF y = NULL THEN "" ELSE y \o "/") \o ModelName(i)
                    \o "/" \o t, TRUE, t,
            ModelInfo(ModelName(i), y, NULL), k)

OtherUrl == SiteUrl(BaseUrl \o "/dealers", FALSE, "main", ModelInfo(NULL, NULL, NULL), TRUE)

\* The URLs a site of m models serves: one main page per model, page
\* `broken` failing to load, optionally a specs page of model 1 and a page
\* that is no bike page; y is the year the URLs carry (NULL for none).
SiteListing(m, broken, extra, other, y) ==
    (IF other THEN <<OtherUrl>> ELSE <<>>)
    \o [i \in 1..m |-> BikeUrl(i, "main", y, i # broken)]
    \o (IF extra /\ m >= 1 THEN <<BikeUrl(1, "specs", y, TRUE)>> ELSE <<>>)

Years == {"2024", NULL}

\* is_bike_page(url, "") and extract_model_info(url, "") is not None, which
\* it is when the result has a model
Classified(p) == p.bike /\ p.model_info.model # NULL

bike_pages(lst) == SelectSeq(Take(lst, UrlLimit), Classified)

\* a key that leaves the variant out
group_key_without_variant(p) ==
    <<Manufacturer, p.model_info.model, p.model_info.year, NULL>>

\* model_info of a page dict that has none (None)
NoModelInfo == <<>>

group_key(p) ==
    <<Manufacturer, p.model_info.model, p.model_info.year, p.model_info.variant>>

\* group_related_pages: a dict in insertion order, as a sequence of
\* [key, pages] items
RECURSIVE group_related_pages(_, _)
group_related_pages(pages, acc) ==
    IF pages = <<>> THEN acc
    ELSE IF Head(pages).model_info = NoModelInfo    \* if not model_info: continue
    THEN group_related_pages(Tail(pages), acc)
    ELSE LET p == Head(pages)
             key == group_key(p)
             at == {j \in 1..Len(acc) : acc[j].key = key}
         IN  group_related_pages(Tail(pages),
               IF at = {} THEN Append(acc, [key |-> key, pages |-> <<p>>])
               ELSE [j \in 1..Len(acc) |->
                        IF j \in at
                        THEN [acc[j] EXCEPT !.pages = Append(@, p)]
                        ELSE acc[j]])

\* page.goto, extract_from_page, extract_images and normalize all succeed;
\* BikeData rejects a year of None
ExtractOk(p) == p.ok /\ p.model_info.year # NULL

InitCrawl ==
    /\ InitEngine({Absent})
    /\ rate_limit_seconds = MinRateLimit
    /\ pc = "idle"
    /\ cpc = "start"
    /\ mpc = "off"
    /\ pages_data = <<>>
    /\ pages_in = <<>>
    /\ NoCallPending
    /\ NoTask
    /\ NoSiteCrawl

\* await self.discovery_engine.initialize_browser(...), outside the try
CrawlStart ==
    /\ cpc = "start"
    /\ \E launched \in BOOLEAN :
        /\ cpc' = IF launched THEN "discover" ELSE "raised"
        /\ pc' = IF launched THEN "load" ELSE pc
    /\ UNCHANGED <<engineVars, idx, todo, work, found, to_visit, visited_in_pass,
                   sitemap_live, obsVars>>
    /\ UNCHANGED <<crawl_urls, grouped, gi, pi, pages_data, handed, unwritable,
                   completed, exit_code>>
    /\ UNCHANGED <<mergeVars, imageVars, callVars, taskVars, siteVars>>

\* The rest of "async for url in discover_all_pages(): discovered_urls.append(url)"
\* once the home page is open: every strategy's URLs are yielded unless
\* visited, then save_state.
CrawlCollect ==
    /\ cpc = "discover"
    /\ pc = "sitemap"
    /\ \E m \in 0..MaxModels, extra \in BOOLEAN, other \in BOOLEAN, y \in Years :
       \E broken \in 0..m :
        LET yielded == SelectSeq(SiteListing(m, broken, extra, other, y),
                                 LAMBDA p : Yields(p.url))
            known == discovered_urls \cup {yielded[j].url : j \in 1..Len(yielded)}
        IN  /\ crawl_urls' = yielded
            /\ discovered_urls' = known
            /\ state_file' = JsonFile(BaseUrl, visited_urls, known, pending_urls)
    /\ pc' = "done"
    /\ cpc' = "classify"
    /\ UNCHANGED <<visited_urls, pending_urls, rate_limit_seconds, idx, todo, work, found,
                   to_visit, visited_in_pass, sitemap_live, obsVars>>
    /\ UNCHANGED <<grouped, gi, pi, pages_data, handed, unwritable, completed, exit_code>>
    /\ UNCHANGED <<mergeVars, imageVars, callVars, taskVars, siteVars>>

\* RuntimeError out of discover_all_pages: "except Exception" in crawl logs it
CrawlFatal ==
    /\ cpc = "discover"
    /\ pc = "fatal"
    /\ cpc' = "finally"
    /\ UNCHANGED <<engineVars, genVars, obsVars>>
    /\ UNCHANGED <<crawl_urls, grouped, gi, pi, pages_data, handed, unwritable,
                   completed, exit_code>>
    /\ UNCHANGED <<mergeVars, imageVars, callVars, taskVars, siteVars>>

\* Phase 2 and step 3: classify discovered_urls[:50], group the bike pages
CrawlClassify ==
    /\ cpc = "classify"
    /\ grouped' = group_related_pages(bike_pages(crawl_urls), <<>>)
    /\ gi' = 1
    /\ pi' = 1
    /\ pages_data' = <<>>
    /\ cpc' = "process"
    /\ UNCHANGED <<engineVars, genVars, obsVars>>
    /\ UNCHANGED <<crawl_urls, handed, unwritable, completed, exit_code>>
    /\ UNCHANGED <<mergeVars, imageVars, callVars, taskVars, siteVars>>

Processing == cpc = "process" /\ gi <= Min(Len(grouped), GroupLimit)

\* One pass of "for page_info in pages" in _process_bike
ProcessPage ==
    /\ Processing
    /\ pi <= Len(grouped[gi].pages)
    /\ LET p == grouped[gi].pages[pi]
       IN  pages_data' = IF ExtractOk(p)
                         THEN Append(pages_data,
                                     PageData([BikeData(BikeSpecifications) EXCEPT
                                                 !.source_urls = <<p.url>>],
                                              p.page_type))
                         ELSE pages_data
    /\ pi' = pi + 1
    /\ UNCHANGED <<engineVars, genVars, obsVars>>
    /\ UNCHANGED <<cpc, crawl_urls, grouped, gi, handed, unwritable, completed, exit_code>>
    /\ UNCHANGED <<mergeVars, imageVars, callVars, taskVars, siteVars>>

\* The rest of _process_bike and the end of the loop body in crawl: nothing
\* is written for empty pages_data; otherwise the merged record goes to
\* write_bike_markdown and, if that returns, to write_metadata.  The
\* exception of write_bike_markdown on an unwritable folder is logged by
\* crawl, which moves to the next group.
ProcessFinish ==
    /\ Processing
    /\ pi > Len(grouped[gi].pages)
    /\ IF pages_data = <<>>
       THEN UNCHANGED <<handed, merged>>
       ELSE LET key == grouped[gi].key
            IN  /\ merged' \in Returned(merge_bike_data(pages_data))
                /\ handed' = handed \cup {<<key, "markdown">>}
                              \cup (IF key[2] = unwritable THEN {}
                                    ELSE {<<key, "metadata">>})
    /\ gi' = gi + 1
    /\ pi' = 1
    /\ pages_data' = <<>>
    /\ UNCHANGED <<engineVars, genVars, obsVars>>
    /\ UNCHANGED <<cpc, crawl_urls, grouped, unwritable, completed, exit_code>>
    /\ UNCHANGED <<mpc, pages_in, imageVars, callVars, taskVars, siteVars>>

\* "Crawl complete! Processed n bikes"
CrawlComplete ==
    /\ cpc = "process"
    /\ ~Processing
    /\ completed' = TRUE
    /\ cpc' = "finally"
    /\ UNCHANGED <<engineVars, genVars, obsVars>>
    /\ UNCHANGED <<crawl_urls, grouped, gi, pi, pages_data, handed, unwritable, exit_code>>
    /\ UNCHANGED <<mergeVars, imageVars, callVars, taskVars, siteVars>>

\* finally: close_browser, save_state; crawl returns
CrawlFinally ==
    /\ cpc = "finally"
    /\ save_state
    /\ cpc' = "returned"
    /\ UNCHANGED <<visited_urls, discovered_urls, pending_urls, rate_limit_seconds, genVars,
                   obsVars>>
    /\ UNCHANGED <<crawl_urls, grouped, gi, pi, pages_data, handed, unwritable,
                   completed, exit_code>>
    /\ UNCHANGED <<mergeVars, imageVars, callVars, taskVars, siteVars>>

\* main() returns or raises what crawl raised; asyncio.run(main()) in
\* run_main ends the process with status 0, or 1 on an uncaught exception
MainExit ==
    /\ cpc \in {"returned", "raised"}
    /\ exit_code' = IF cpc = "raised" THEN 1 ELSE 0
    /\ cpc' = "exited"
    /\ UNCHANGED <<engineVars, genVars, obsVars>>
    /\ UNCHANGED <<crawl_urls, grouped, gi, pi, pages_data, handed, unwritable, completed>>
    /\ UNCHANGED <<mergeVars, imageVars, callVars, taskVars, siteVars>>

NextCrawl ==
    \/ CrawlStart
    \/ LoadState
    \/ HomeAttempt
    \/ CrawlCollect
    \/ CrawlFatal
    \/ CrawlClassify
    \/ ProcessPage
    \/ ProcessFinish
    \/ CrawlComplete
    \/ CrawlFinally
    \/ MainExit

SpecCrawl == InitCrawl /\ [][NextCrawl]_vars

(***************************************************************************)
(* merge_bike_data called on its own                                       *)
(***************************************************************************)
InitMerge ==
    /\ InitEngine({Absent})
    /\ rate_limit_seconds = MinRateLimit
    /\ sitemap_live
    /\ unwritable = NULL
    /\ pc = "idle"
    /\ cpc = "off"
    /\ mpc = "call"
    /\ \E n \in 0..MaxGroupPages :
        \/ \E bf \in SpecFieldSamples, choice \in [1..n -> RecordChoices] :
              pages_data = MergeInput(bf, choice)
        \/ \E choice \in [1..n -> ListChoices] :
              pages_data = MergeListInput(choice)
    /\ pages_in = pages_data
    /\ NoCallPending
    /\ NoTask
    /\ NoSiteCrawl

\* merged = self.merger.merge_bike_data(pages_data)
MergeBikeData ==
    /\ mpc = "call"
    /\ LET r == merge_bike_data(pages_data)
       IN  /\ merged' \in (IF r.raised THEN {merged} ELSE Returned(r))
           /\ pages_data' = r.pages_data
           /\ mpc' = IF r.raised THEN "raised" ELSE "returned"
    /\ UNCHANGED <<engineVars, genVars, obsVars, imageVars, callVars, taskVars, siteVars,
                   pages_in>>
    /\ UNCHANGED <<cpc, crawl_urls, grouped, gi, pi, handed, unwritable, completed,
                   exit_code>>

NextMerge == MergeBikeData

SpecMerge == InitMerge /\ [][NextMerge]_vars

(***************************************************************************)
(* download_image called any number of times on one ImageDownloader        *)
(***************************************************************************)
\* a downloader that does not look the digest up
AlreadySeenIgnored(image_hash) == FALSE

\* if image_hash in self.image_hashes: return None
AlreadySeen(image_hash) == image_hash \in image_hashes

InitImage ==
    /\ InitEngine({Absent})
    /\ rate_limit_seconds = MinRateLimit
    /\ sitemap_live
    /\ unwritable = NULL
    /\ pc = "idle"
    /\ cpc = "off"
    /\ mpc = "off"
    /\ pages_data = <<>>
    /\ pages_in = <<>>
    /\ NoCallPending
    /\ NoTask
    /\ NoSiteCrawl

\* session.get raises, answers with another status, or answers 200
Statuses == {"error", "404", "200"}

\* mkdir or open raises, f.write raises after open truncated the file, or
\* the bytes are written
WriteOutcomes == {"not opened", "truncated", "written"}
Truncated == 0

\* a failed call is abandoned and the whole image loop with it
AfterFailureAbandoned(i, n) == n

\* download_image has returned None: "if path:" is false and the for loop
\* goes on with the next idx
AfterFailure(i, n) == i + 1

\* _process_bike after merge_bike_data: image_paths = [],
\* "for idx, img_info in enumerate(merged_bike_data.images[:10])"
ImagesStart ==
    /\ ipc \in {"idle", "written"}
    /\ records_written < MaxRecords
    /\ ipc' = "loop"
    /\ img_n' \in 0..(MaxIndex + 1)
    /\ img_idx' = 0
    /\ img_results' = <<>>
    /\ UNCHANGED <<image_hashes, files, stored, last_call, records_written>>
    /\ UNCHANGED <<engineVars, genVars, obsVars, crawlVars, mergeVars, callVars, taskVars,
                   siteVars>>

\* one pass of the loop: download_image(url, manufacturer, model, year,
\* index, session); any exception, the one of a failed write included, is
\* logged and gives None
DownloadImage ==
    /\ ipc = "loop"
    /\ img_idx < img_n
    /\ UNCHANGED <<ipc, img_n, records_written>>
    /\ UNCHANGED <<engineVars, genVars, obsVars, crawlVars, mergeVars, callVars, taskVars,
                   siteVars>>
    /\ \E ext \in Extensions, status \in Statuses, response \in Contents, w \in WriteOutcomes :
           IF status # "200"
           THEN /\ last_call' = [NoCall EXCEPT !.status = "failed"]
                /\ UNCHANGED <<image_hashes, files, stored>>
           ELSE LET image_hash == Sha256(response)
                    filepath == ImagePath(Manufacturer, ImageModel, ImageYear, img_idx, ext)
                IN  IF AlreadySeen(image_hash)
                    THEN /\ last_call' = [status |-> "fetched", hash |-> image_hash,
                                          seen |-> image_hash \in image_hashes,
                                          wrote |-> FALSE, result |-> NULL]
                         /\ UNCHANGED <<image_hashes, files, stored>>
                    ELSE /\ image_hashes' = image_hashes \cup {image_hash}
                         /\ files' = IF w = "not opened" THEN files
                                      ELSE [p \in DOMAIN files \cup {filepath} |->
                                              IF p # filepath THEN files[p]
                                              ELSE IF w = "written" THEN response
                                              ELSE Truncated]
                         /\ stored' = IF w = "written"
                                       THEN stored \cup {<<image_hash, filepath>>}
                                       ELSE stored
                         /\ last_call' = [status |-> "fetched", hash |-> image_hash,
                                          seen |-> image_hash \in image_hashes,
                                          wrote |-> w = "written",
                                          result |-> IF w = "written" THEN filepath ELSE NULL]
    \* "if path: image_paths.append(path)"
    /\ img_results' = Append(img_results, [status |-> last_call'.status,
                                           result |-> last_call'.result])
    /\ img_idx' = IF last_call'.status = "failed" THEN AfterFailure(img_idx, img_n)
                  ELSE img_idx + 1

\* the loop is over: write_bike_markdown(merged_bike_data, image_paths) and
\* write_metadata(metadata)
RecordWritten ==
    /\ ipc = "loop"
    /\ img_idx >= img_n
    /\ ipc' = "written"
    /\ records_written' = records_written + 1
    /\ UNCHANGED <<image_hashes, files, stored, last_call, img_n, img_idx, img_results>>
    /\ UNCHANGED <<engineVars, genVars, obsVars, crawlVars, mergeVars, callVars, taskVars,
                   siteVars>>

NextImage ==
    \/ ImagesStart
    \/ DownloadImage
    \/ RecordWritten

SpecImage == InitImage /\ [][NextImage]_vars

(***************************************************************************)
(* Functions called on their own.  Standalone is the state of a program    *)
(* in which nothing else runs.                                             *)
(***************************************************************************)
Standalone ==
    /\ InitEngine({Absent})
    /\ rate_limit_seconds = MinRateLimit
    /\ sitemap_live
    /\ unwritable = NULL
    /\ pc = "idle"
    /\ cpc = "off"
    /\ mpc = "off"
    /\ pages_data = <<>>
    /\ pages_in = <<>>
    /\ NoTask

CallFrame ==
    UNCHANGED <<engineVars, genVars, obsVars, crawlVars, mergeVars, imageVars, taskVars,
                siteVars>>

(***************************************************************************)
(* PageDiscoveryEngine.normalize_url.  A URL text is a sequence of tokens: *)
(* the words "https", "X" and "x" and the delimiters ":", "/", "?", "#".   *)
(***************************************************************************)
Words == {"https", "X", "x"}
UrlTokens == {"https", "X", ":", "/", "?", "#"}

\* str.lower()
Lower(text) == [i \in DOMAIN text |-> IF text[i] = "X" THEN "x" ELSE text[i]]

\* text.find: the first position of a token of S, 0 for none
Find(text, S) ==
    IF \E i \in DOMAIN text : text[i] \in S
    THEN CHOOSE i \in DOMAIN text : text[i] \in S /\ \A j \in 1..(i - 1) : text[j] \notin S
    ELSE 0

From(text, i) == SubSeq(text, i, Len(text))

\* path.rstrip('/')
RECURSIVE RStrip(_)
RStrip(path) ==
    IF path # <<>> /\ path[Len(path)] = "/" THEN RStrip(SubSeq(path, 1, Len(path) - 1))
    ELSE path

\* urllib.parse.urlparse: a scheme is what precedes the first ":" when that
\* is made of scheme characters; a netloc follows a leading "//" up to the
\* next "/", "?" or "#"; the fragment follows the first "#", the query the
\* first "?"
urlparse(url) ==
    LET colon == Find(url, {":"})
        has_scheme == colon > 1 /\ \A i \in 1..(colon - 1) : url[i] \in Words
        rest == IF has_scheme THEN From(url, colon + 1) ELSE url
        has_netloc == Len(rest) >= 2 /\ rest[1] = "/" /\ rest[2] = "/"
        after == IF has_netloc THEN From(rest, 3) ELSE rest
        delim == Find(after, {"/", "?", "#"})
        tail == IF has_netloc
                THEN (IF delim = 0 THEN <<>> ELSE From(after, delim))
                ELSE rest
        hash == Find(tail, {"#"})
        unfragmented == IF hash = 0 THEN tail ELSE SubSeq(tail, 1, hash - 1)
        mark == Find(unfragmented, {"?"})
    IN  [scheme |-> IF has_scheme THEN Lower(SubSeq(url, 1, colon - 1)) ELSE <<>>,
         netloc |-> IF ~has_netloc THEN <<>>
                    ELSE IF delim = 0 THEN after ELSE SubSeq(after, 1, delim - 1),
         path |-> IF mark = 0 THEN unfragmented ELSE SubSeq(unfragmented, 1, mark - 1),
         query |-> IF mark = 0 THEN <<>> ELSE From(unfragmented, mark + 1),
         fragment |-> IF hash = 0 THEN <<>> ELSE From(tail, hash + 1)]

normalize_url(url) ==
    LET parsed == urlparse(url)
        path == RStrip(parsed.path)
        normalized == parsed.scheme \o <<":", "/", "/">> \o parsed.netloc \o path
    IN  Lower(IF parsed.query # <<>> THEN normalized \o <<"?">> \o parsed.query
              ELSE normalized)

\* absolute, scheme-less and relative URLs
UrlHeads == {<<"https", ":", "/", "/", "X">>, <<"/", "/", "X">>, <<>>}

UrlInputs == {head \o rest : head \in UrlHeads, rest \in SeqsUpTo(UrlTokens, MaxUrlLen)}

InitUrl ==
    /\ Standalone
    /\ NoSiteCrawl
    /\ args \in UrlInputs
    /\ result = <<>>
    /\ fpc = "call"

\* normalized = self.normalize_url(url)
NormalizeUrl ==
    /\ fpc = "call"
    /\ result' = normalize_url(args)
    /\ fpc' = "returned"
    /\ UNCHANGED args
    /\ CallFrame

\* the result is normalized again
NormalizeUrlAgain ==
    /\ fpc = "returned"
    /\ args' = result
    /\ result' = normalize_url(result)
    /\ fpc' = "returned again"
    /\ CallFrame

NextUrl ==
    \/ NormalizeUrl
    \/ NormalizeUrlAgain

SpecUrl == InitUrl /\ [][NextUrl]_vars

(***************************************************************************)
(* BikePageClassifier.group_related_pages on lists of page dicts           *)
(***************************************************************************)
PageIdentities ==
    {NoModelInfo}
        \cup {ModelInfo(m, y, v) : m \in {ModelName(1), ModelName(2)}, y \in Years,
                                   v \in {NULL, "S"}}

\* the i-th page dict of a list
PageDict(i, mi) ==
    [url |-> BaseUrl \o "/page-" \o ToString(i), page_type |-> "main", model_info |-> mi]

PageLists ==
    {[i \in DOMAIN ids |-> PageDict(i, ids[i])] : ids \in SeqsUpTo(PageIdentities, MaxPageDicts)}

InitGroup ==
    /\ Standalone
    /\ NoSiteCrawl
    /\ args \in PageLists
    /\ result = <<>>
    /\ fpc = "call"

\* grouped = self.classifier.group_related_pages(bike_pages)
GroupRelatedPages ==
    /\ fpc = "call"
    /\ result' = group_related_pages(args, <<>>)
    /\ fpc' = "returned"
    /\ UNCHANGED args
    /\ CallFrame

NextGroup == GroupRelatedPages

SpecGroup == InitGroup /\ [][NextGroup]_vars

(***************************************************************************)
(* MotorcycleCrawler.crawl as the one task of the event loop.  Every await *)
(* is two steps: the task starts the awaited operation and is suspended,   *)
(* then it is resumed with the operation's result or exception.  An        *)
(* interrupt cancels the task while it is suspended: CancelledError is     *)
(* thrown at the await, and the operation it waited for may go on in the   *)
(* browser or on the network.                                              *)
(***************************************************************************)
IoKinds == {"navigation", "extraction", "sitemap request", "image fetch"}

\* discover_all_pages: page.goto of the home page, check_sitemap, the
\* navigations of the strategies, with the waits between them
DiscoverySteps == <<"navigation", "sleep", "sitemap request", "sleep", "navigation">>
\* one pass of the page loop of _process_bike
PageSteps == <<"navigation", "sleep", "extraction", "extraction", "sleep">>
\* write_bike_markdown, write_metadata
WriteSteps == <<"write", "write">>
\* the try block of crawl's finally
FinallySteps == <<"sleep", "close_browser", "sleep">>

Exceptions == {"error", "cancelled"}

\* a handler that catches every exception, cancellation included
CatchesBaseException(exc) == TRUE

\* "except Exception": CancelledError is not an Exception
CatchesException(exc) == exc = "error"

\* save_state placed after the try block: reached only if nothing leaves it
AfterCleanupUnprotected(exc) ==
    IF exc = NULL \/ CatchesException(exc) THEN "save" ELSE "cancelled"

\* the inner "finally: save_state()" runs however the try block is left
AfterCleanup(exc) == "save"

\* lst without the first occurrence of op
Without(lst, op) ==
    IF op \notin Range(lst) THEN lst
    ELSE LET i == CHOOSE j \in DOMAIN lst :
                      lst[j] = op /\ \A k \in 1..(j - 1) : lst[k] # op
         IN  SubSeq(lst, 1, i - 1) \o SubSeq(lst, i + 1, Len(lst))

\* where control goes when exc is thrown at the await the task is suspended on
Thrown(exc) ==
    LET to_finally == [tpc |-> "finally", steps |-> FinallySteps,
                       raising |-> IF CatchesException(exc) THEN NULL ELSE exc]
    IN  CASE tpc = "init" ->
               [tpc |-> IF exc = "error" THEN "raised" ELSE "cancelled", steps |-> <<>>,
                raising |-> exc]
          [] tpc = "discover" -> to_finally
          [] tpc = "page" ->       \* except Exception: ... continue
               IF CatchesException(exc)
               THEN [tpc |-> "page", steps |-> <<>>, raising |-> NULL]
               ELSE to_finally
          [] tpc = "images" ->     \* except Exception around each download_image
               IF CatchesException(exc)
               THEN [tpc |-> "images", steps |-> steps, raising |-> NULL]
               ELSE to_finally
          [] tpc = "write" ->      \* except Exception around _process_bike
               IF CatchesException(exc)
               THEN [tpc |-> "group", steps |-> <<>>, raising |-> NULL]
               ELSE to_finally
          [] tpc = "finally" ->    \* except Exception: "Error closing browser"
               IF CatchesException(exc)
               THEN [tpc |-> "finally", steps |-> <<>>, raising |-> raising]
               ELSE [tpc |-> AfterCleanup(exc), steps |-> <<>>, raising |-> exc]

TaskPhases == {"init", "discover", "page", "images", "write", "finally"}
Idle == awaiting = NULL /\ steps = <<>>

TaskFrame ==
    UNCHANGED <<genVars, obsVars, crawlVars, mergeVars, imageVars, callVars, siteVars>>

InitTask ==
    /\ InitEngine({Absent})
    /\ rate_limit_seconds = MinRateLimit
    /\ sitemap_live
    /\ unwritable = NULL
    /\ pc = "idle"
    /\ cpc = "off"
    /\ mpc = "off"
    /\ pages_data = <<>>
    /\ pages_in = <<>>
    /\ args = <<>>
    /\ result = <<>>
    /\ fpc = "idle"
    /\ tpc = "init"
    /\ steps = <<"launch">>     \* await initialize_browser(...), outside the try
    /\ awaiting = NULL
    /\ in_flight = <<>>
    /\ groups_left = 0
    /\ pages_left = 0
    /\ extracted = 0
    /\ bikes_processed = 0
    /\ interrupts = 0
    /\ browser_up = FALSE
    /\ raising = NULL
    /\ exit_saves = 0
    /\ NoSiteCrawl

\* the task reaches its next await and is suspended on it
Await ==
    /\ tpc \in TaskPhases
    /\ awaiting = NULL
    /\ steps # <<>>
    /\ awaiting' = Head(steps)
    /\ steps' = Tail(steps)
    /\ in_flight' = IF Head(steps) = "sleep" THEN in_flight ELSE Append(in_flight, Head(steps))
    /\ UNCHANGED <<tpc, groups_left, pages_left, extracted, bikes_processed, interrupts,
                   browser_up, raising,
                   exit_saves>>
    /\ UNCHANGED engineVars
    /\ TaskFrame

\* the awaited operation has finished and the task goes on
Resume ==
    /\ awaiting # NULL
    /\ awaiting' = NULL
    /\ in_flight' = Without(in_flight, awaiting)
    \* pages_data.append(...) follows the second extraction of a page
    /\ extracted' = IF tpc = "page" /\ awaiting = "extraction" /\ Len(steps) = 1
                    THEN extracted + 1 ELSE extracted
    /\ UNCHANGED <<tpc, steps, groups_left, pages_left, bikes_processed, interrupts,
                   browser_up, raising,
                   exit_saves>>
    /\ UNCHANGED engineVars
    /\ TaskFrame

\* the awaited operation has failed: its exception is thrown at the await
ResumeWithError ==
    /\ awaiting \notin {NULL, "sleep"}
    /\ awaiting' = NULL
    /\ in_flight' = Without(in_flight, awaiting)
    /\ tpc' = Thrown("error").tpc
    /\ steps' = Thrown("error").steps
    /\ raising' = Thrown("error").raising
    /\ UNCHANGED <<groups_left, pages_left, extracted, bikes_processed, interrupts, browser_up,
                   exit_saves>>
    /\ UNCHANGED engineVars
    /\ TaskFrame

\* an interrupt while the task is suspended: CancelledError at the await
Cancel ==
    /\ awaiting # NULL
    /\ interrupts < MaxInterrupts
    /\ interrupts' = interrupts + 1
    /\ awaiting' = NULL
    /\ in_flight' = in_flight      \* nothing ends the abandoned operation
    /\ tpc' = Thrown("cancelled").tpc
    /\ steps' = Thrown("cancelled").steps
    /\ raising' = Thrown("cancelled").raising
    /\ UNCHANGED <<groups_left, pages_left, extracted, bikes_processed, browser_up, exit_saves>>
    /\ UNCHANGED engineVars
    /\ TaskFrame

\* an operation the task no longer waits for comes to its end
Settle ==
    /\ LET abandoned == IF awaiting = NULL THEN in_flight ELSE Without(in_flight, awaiting)
       IN  /\ abandoned # <<>>
           /\ in_flight' = Without(in_flight, Head(abandoned))
    /\ UNCHANGED <<tpc, steps, awaiting, groups_left, pages_left, extracted, bikes_processed,
                   interrupts, browser_up,
                   raising, exit_saves>>
    /\ UNCHANGED engineVars
    /\ TaskFrame

\* initialize_browser has returned; "async for url in discover_all_pages()"
BrowserLaunched ==
    /\ tpc = "init"
    /\ Idle
    /\ browser_up' = TRUE
    /\ tpc' = "discover"
    /\ steps' = DiscoverySteps
    /\ UNCHANGED <<awaiting, in_flight, groups_left, pages_left, extracted, bikes_processed,
                   interrupts, raising,
                   exit_saves>>
    /\ UNCHANGED engineVars
    /\ TaskFrame

\* classification and grouping, which await nothing
Discovered ==
    /\ tpc = "discover"
    /\ Idle
    /\ groups_left' \in 0..MaxTaskGroups
    /\ tpc' = "group"
    /\ UNCHANGED <<steps, awaiting, in_flight, pages_left, extracted, bikes_processed,
                   interrupts, browser_up, raising,
                   exit_saves>>
    /\ UNCHANGED engineVars
    /\ TaskFrame

\* the next "for bike_key, pages in grouped": _process_bike starts its page loop
TaskProcessBike ==
    /\ tpc = "group"
    /\ groups_left > 0
    /\ groups_left' = groups_left - 1
    /\ pages_left' \in 1..MaxTaskPages
    /\ extracted' = 0
    /\ tpc' = "page"
    /\ steps' = PageSteps
    /\ UNCHANGED <<awaiting, in_flight, bikes_processed, interrupts, browser_up, raising,
                   exit_saves>>
    /\ UNCHANGED engineVars
    /\ TaskFrame

\* the end of one page: the next page, or "if not pages_data: return", or
\* the merged record's images[:10]
TaskPageDone ==
    /\ tpc = "page"
    /\ Idle
    /\ pages_left' = pages_left - 1
    /\ IF pages_left > 1
       THEN tpc' = tpc /\ steps' = PageSteps
       ELSE IF extracted = 0
       THEN tpc' = "group" /\ steps' = <<>>
       ELSE \E n \in 0..MaxTaskImages :
                 /\ tpc' = "images"
                 /\ steps' = [i \in 1..n |-> "image fetch"]
    \* _process_bike returns without data: bikes_processed += 1
    /\ bikes_processed' = IF pages_left = 1 /\ extracted = 0
                          THEN bikes_processed + 1 ELSE bikes_processed
    /\ UNCHANGED <<awaiting, in_flight, groups_left, extracted, interrupts, browser_up,
                   raising, exit_saves>>
    /\ UNCHANGED engineVars
    /\ TaskFrame

\* the image loop is over: the writers
TaskImagesDone ==
    /\ tpc = "images"
    /\ Idle
    /\ tpc' = "write"
    /\ steps' = WriteSteps
    /\ UNCHANGED <<awaiting, in_flight, groups_left, pages_left, extracted, bikes_processed,
                   interrupts, browser_up,
                   raising, exit_saves>>
    /\ UNCHANGED engineVars
    /\ TaskFrame

\* _process_bike returns: bikes_processed += 1
TaskWritten ==
    /\ tpc = "write"
    /\ Idle
    /\ tpc' = "group"
    /\ bikes_processed' = bikes_processed + 1
    /\ UNCHANGED <<steps, awaiting, in_flight, groups_left, pages_left, extracted, interrupts,
                   browser_up, raising, exit_saves>>
    /\ UNCHANGED engineVars
    /\ TaskFrame

\* "Crawl complete!": the try block of crawl ends, its finally starts
TaskComplete ==
    /\ tpc = "group"
    /\ groups_left = 0
    /\ completed' = TRUE
    /\ tpc' = "finally"
    /\ steps' = FinallySteps
    /\ UNCHANGED <<awaiting, in_flight, groups_left, pages_left, extracted, bikes_processed,
                   interrupts,
                   browser_up, raising, exit_saves>>
    /\ UNCHANGED <<cpc, crawl_urls, grouped, gi, pi, pages_data, handed, unwritable, exit_code>>
    /\ UNCHANGED <<engineVars, genVars, obsVars, mergeVars, imageVars, callVars, siteVars>>

\* the try statement of the finally ends, normally or in its except clause
CleanupDone ==
    /\ tpc = "finally"
    /\ Idle
    /\ tpc' = AfterCleanup(NULL)
    /\ UNCHANGED <<steps, awaiting, in_flight, groups_left, pages_left, extracted,
                   bikes_processed, interrupts,
                   browser_up, raising, exit_saves>>
    /\ UNCHANGED engineVars
    /\ TaskFrame

\* finally: self.discovery_engine.save_state(); then crawl returns, or the
\* pending exception leaves it
TaskSaveState ==
    /\ tpc = "save"
    /\ save_state
    /\ exit_saves' = exit_saves + 1
    /\ tpc' = IF raising = NULL THEN "returned" ELSE "cancelled"
    /\ UNCHANGED <<steps, awaiting, in_flight, groups_left, pages_left, extracted,
                   bikes_processed, interrupts,
                   browser_up, raising>>
    /\ UNCHANGED <<visited_urls, discovered_urls, pending_urls, rate_limit_seconds>>
    /\ TaskFrame

NextTask ==
    \/ Await
    \/ Resume
    \/ ResumeWithError
    \/ Cancel
    \/ Settle
    \/ BrowserLaunched
    \/ Discovered
    \/ TaskProcessBike
    \/ TaskPageDone
    \/ TaskImagesDone
    \/ TaskWritten
    \/ TaskComplete
    \/ CleanupDone
    \/ TaskSaveState

SpecTask == InitTask /\ [][NextTask]_vars

(***************************************************************************)
(* The page loop of SiteCrawler.crawl (scripts/full_site_crawler.py).      *)
(* crawl_state.json is writable: every save_state call replaces it.        *)
(***************************************************************************)
SaveEvery == 5      \* if i % 5 == 0: self.save_state()

SiteUrls == 1..MaxSiteUrls

SiteFrame ==
    UNCHANGED <<engineVars, genVars, obsVars, crawlVars, mergeVars, imageVars, callVars,
                taskVars>>

\* __init__ has loaded crawl_state.json; the loop is about to start
InitSite ==
    /\ Standalone
    /\ NoCallPending
    /\ sc_state_file \in SUBSET SiteUrls
    /\ sc_visited_urls = sc_state_file
    /\ sc_i = 1
    /\ sc_last = NULL

\* if bike_url in self.visited_urls: continue
SiteSkip ==
    /\ sc_i \in SiteUrls
    /\ sc_i \in sc_visited_urls
    /\ sc_i' = sc_i + 1
    /\ sc_last' = "skipped"
    /\ UNCHANGED <<sc_visited_urls, sc_state_file>>
    /\ SiteFrame

\* the try block runs to its end: visited_urls.add, the periodic save_state
SiteCrawled ==
    /\ sc_i \in SiteUrls
    /\ sc_i \notin sc_visited_urls
    /\ sc_visited_urls' = sc_visited_urls \cup {sc_i}
    /\ sc_state_file' = IF sc_i % SaveEvery = 0 THEN sc_visited_urls' ELSE sc_state_file
    /\ sc_i' = sc_i + 1
    /\ sc_last' = "crawled"
    /\ SiteFrame

\* goto, extraction, a download or the markdown file raises: except, continue
SiteFailed ==
    /\ sc_i \in SiteUrls
    /\ sc_i \notin sc_visited_urls
    /\ sc_i' = sc_i + 1
    /\ sc_last' = "failed"
    /\ UNCHANGED <<sc_visited_urls, sc_state_file>>
    /\ SiteFrame

NextSite ==
    \/ SiteSkip
    \/ SiteCrawled
    \/ SiteFailed

SpecSite == InitSite /\ [][NextSite]_vars

(***************************************************************************)
(* utils/units.py: parse_spec_value.  A text is a sequence of characters   *)
(* of TextChars; "k" stands for the letters.                               *)
(***************************************************************************)
TextChars == {"1", "3", ".", "-", " ", "~", "k"}
DigitChars == {"1", "3"}
NumChars == DigitChars \cup {"."}       \* [\d.]
UnitChars == {"k", ".", "-"}            \* [a-zA-Z./\-]

\* the first place from i on whose character is not in S, Len(text) + 1 for none
Span(text, i, S) ==
    LET ends == {j \in i..(Len(text) + 1) :
                    IF j = Len(text) + 1 THEN TRUE ELSE text[j] \notin S}
    IN  CHOOSE j \in ends : \A k \in ends : j <= k

\* text.replace('~', '').strip()
Cleaned(text) ==
    LET t == SelectSeq(text, LAMBDA c : c # "~")
        kept == {i \in DOMAIN t : t[i] # " "}
    IN  IF kept = {} THEN <<>>
        ELSE SubSeq(t, CHOOSE i \in kept : \A j \in kept : i <= j,
                       CHOOSE i \in kept : \A j \in kept : i >= j)

RECURSIVE IntOf(_)
IntOf(ds) ==
    IF ds = <<>> THEN 0
    ELSE 10 * IntOf(SubSeq(ds, 1, Len(ds) - 1)) + (IF ds[Len(ds)] = "1" THEN 1 ELSE 3)

RECURSIVE Pow10(_)
Pow10(n) == IF n = 0 THEN 1 ELSE 10 * Pow10(n - 1)

\* a value is the fraction num / den; None has den = 0
NoValue == [num |-> 0, den |-> 0]

\* float(numeral) for a numeral of digits and dots: ValueError unless it
\* has a digit and at most one dot
Float(numeral) ==
    LET dots == {i \in DOMAIN numeral : numeral[i] = "."}
        ds == SelectSeq(numeral, LAMBDA c : c \in DigitChars)
    IN  IF Cardinality(dots) > 1 \/ ds = <<>>
        THEN [raised |-> TRUE, value |-> NoValue]
        ELSE [raised |-> FALSE,
              value |-> [num |-> IntOf(ds),
                         den |-> IF dots = {} THEN 1
                                 ELSE Pow10(Len(numeral) - (CHOOSE i \in dots : TRUE))]]

\* re.search of ([\d.]+)(?:\s*[-]\s*([\d.]+))?\s*([a-zA-Z][a-zA-Z./\-]*)
\* started at place i: the groups, or no match
MatchAt(t, i) ==
    LET no_match == [found |-> FALSE, g1 |-> <<>>, g2 |-> <<>>, g3 |-> <<>>]
        j == Span(t, i, NumChars)
        j2 == Span(t, j, {" "})
        with_unit(g1, g2, k) ==
            IF k <= Len(t) /\ t[k] = "k"
            THEN [found |-> TRUE, g1 |-> g1, g2 |-> g2,
                  g3 |-> SubSeq(t, k, Span(t, k + 1, UnitChars) - 1)]
            ELSE no_match
    IN  IF j = i THEN no_match
        ELSE IF j2 <= Len(t) /\ t[j2] = "-"
        THEN LET j3 == Span(t, j2 + 1, {" "})
                 k == Span(t, j3, NumChars)
             IN  IF k > j3
                 THEN with_unit(SubSeq(t, i, j - 1), SubSeq(t, j3, k - 1), Span(t, k, {" "}))
                 ELSE no_match
        ELSE with_unit(SubSeq(t, i, j - 1), <<>>, j2)

\* the result of a call: it raised, or it returned (value, unit); the unit
\* None is the empty text
parse_spec_value(text) ==
    LET t == Cleaned(text)
        nothing == [raised |-> FALSE, value |-> NoValue, unit |-> <<>>]
        error == [raised |-> TRUE, value |-> NoValue, unit |-> <<>>]
        starts == {i \in DOMAIN t : MatchAt(t, i).found}
        numerals == {i \in DOMAIN t : t[i] \in NumChars}
    IN  IF text = <<>> THEN nothing
        ELSE IF starts # {}
        THEN LET m == MatchAt(t, CHOOSE i \in starts : \A j \in starts : i <= j)
                 value1 == Float(m.g1)
                 value2 == Float(m.g2)
             IN  IF value1.raised THEN error
                 ELSE IF m.g2 = <<>>
                 THEN [raised |-> FALSE, value |-> value1.value, unit |-> m.g3]
                 ELSE IF value2.raised THEN error
                 ELSE [raised |-> FALSE,
                       value |-> [num |-> value1.value.num * value2.value.den
                                            + value2.value.num * value1.value.den,
                                  den |-> 2 * value1.value.den * value2.value.den],
                       unit |-> m.g3]
        ELSE IF numerals # {}
        THEN LET i == CHOOSE i \in numerals : \A j \in numerals : i <= j
                 number == Float(SubSeq(t, i, Span(t, i, NumChars) - 1))
             IN  IF number.raised THEN error
                 ELSE [raised |-> FALSE, value |-> number.value, unit |-> <<>>]
        ELSE nothing

InitParse ==
    /\ Standalone
    /\ NoSiteCrawl
    /\ args \in SeqsUpTo(TextChars, MaxTextLen)
    /\ result = <<>>
    /\ fpc = "call"

ParseSpecValue ==
    /\ fpc = "call"
    /\ result' = parse_spec_value(args)
    /\ fpc' = "returned"
    /\ UNCHANGED args
    /\ CallFrame

NextParse == ParseSpecValue

SpecParse == InitParse /\ [][NextParse]_vars

(***************************************************************************)
(* utils/units.py: convert_to_metric.  Values are whole numbers, results   *)
(* are counted in hundredths, a factor is the fraction num / den.  round() *)
(* of a product that lies exactly between two neighbours gives the one or  *)
(* the other, as the binary floating point product falls.                  *)
(***************************************************************************)
HP_TO_KW == [num |-> 7457, den |-> 10000]
LBFT_TO_NM == [num |-> 13558, den |-> 10000]
INCH_TO_MM == [num |-> 254, den |-> 10]
FOOT_TO_MM == [num |-> 3048, den |-> 10]
LBS_TO_KG == [num |-> 453592, den |-> 1000000]
MPH_TO_KMH == [num |-> 160934, den |-> 100000]
GALLON_TO_LITER == [num |-> 378541, den |-> 100000]
MPG_TO_L100KM == [num |-> 235214, den |-> 1000]      \* 235.214

\* the whole number below n / d
RoundedDown(n, d) == {n \div d}

\* the whole numbers nearest to n / d, for n >= 0 and d > 0
Rounded(n, d) == {q \in {n \div d, (n \div d) + 1} : 2 * (q * d - n) \in (0 - d)..d}

\* round(value * factor, 2) and round(value * factor, 1), in hundredths
Round2(value, factor) == Rounded(value * factor.num, factor.den \div 100)
Round1(value, factor) == {10 * q : q \in Rounded(value * factor.num, factor.den \div 10)}

\* round(235.214 / mpg, 2), 0.0 for mpg <= 0
convert_fuel_consumption_mpg_to_l100km(mpg) ==
    IF mpg <= 0 THEN {0}
    ELSE Rounded(MPG_TO_L100KM.num, (MPG_TO_L100KM.den \div 100) * mpg)

\* unit.lower().strip() on the units of the model
LowerStripped(unit) ==
    CASE unit = "kW" -> "kw"
      [] unit = "Nm" -> "nm"
      [] unit = "L" -> "l"
      [] unit = "KG " -> "kg"
      [] unit = "L/100km" -> "l/100km"
      [] OTHER -> unit

\* the unit names each conversion rule accepts, after lower() and strip()
Units ==
    [power |-> {"hp", "horsepower", "bhp"},
     torque |-> {"lb-ft", "lbft", "lb.ft", "ft-lb", "ft.lb"},
     inch |-> {"in", "inch", "inches", "\""},
     foot |-> {"ft", "foot", "feet", "'"},
     weight |-> {"lb", "lbs", "pound", "pounds"},
     speed |-> {"mph", "mi/h"},
     volume |-> {"gal", "gallon", "gallons"},
     consumption |-> {"mpg", "mi/gal"}]

\* the target unit names each conversion rule accepts
Targets ==
    [power |-> {"kw", "kilowatt", "kilowatts"},
     torque |-> {"nm", "n-m", "newton-meter"},
     length |-> {"mm", "millimeter", "millimeters"},
     weight |-> {"kg", "kilogram", "kilograms"},
     speed |-> {"km/h", "kmh", "kph"},
     volume |-> {"l", "liter", "liters", "litre", "litres"},
     consumption |-> {"l/100km", "l/100 km"}]

Converted(hundredths) == [none |-> FALSE, value |-> hundredths]
NotConverted == [none |-> TRUE, value |-> 0]

\* the results the call can return
convert_to_metric(value, unit, target_unit) ==
    LET u == LowerStripped(unit)
        t == LowerStripped(target_unit)
        of(S) == {Converted(h) : h \in S}
    IN  IF u \in Units.power /\ t \in Targets.power THEN of(Round2(value, HP_TO_KW))
        ELSE IF u \in Units.torque /\ t \in Targets.torque THEN of(Round2(value, LBFT_TO_NM))
        ELSE IF u \in Units.inch /\ t \in Targets.length THEN of(Round1(value, INCH_TO_MM))
        ELSE IF u \in Units.foot /\ t \in Targets.length THEN of(Round1(value, FOOT_TO_MM))
        ELSE IF u \in Units.weight /\ t \in Targets.weight THEN of(Round2(value, LBS_TO_KG))
        ELSE IF u \in Units.speed /\ t \in Targets.speed THEN of(Round2(value, MPH_TO_KMH))
        ELSE IF u \in Units.volume /\ t \in Targets.volume
        THEN of(Round2(value, GALLON_TO_LITER))
        ELSE IF u \in Units.consumption /\ t \in Targets.consumption
        THEN of(convert_fuel_consumption_mpg_to_l100km(value))
        ELSE IF u = t THEN {Converted(100 * value)}
        ELSE {NotConverted}

SourceUnits == {"hp", "lb-ft", "in", "ft", "lbs", "mph", "gallons", "mpg", "KG ", "rpm"}
TargetUnits == {"kW", "Nm", "mm", "kg", "km/h", "L", "l/100km", "rpm"}

InitConvert ==
    /\ Standalone
    /\ NoSiteCrawl
    /\ args \in [value : 0..MaxValue, unit : SourceUnits, target_unit : TargetUnits]
    /\ result = <<>>
    /\ fpc = "call"

ConvertToMetric ==
    /\ fpc = "call"
    /\ result' \in convert_to_metric(args.value, args.unit, args.target_unit)
    /\ fpc' = "returned"
    /\ UNCHANGED args
    /\ CallFrame

NextConvert == ConvertToMetric

SpecConvert == InitConvert /\ [][NextConvert]_vars

(***************************************************************************)
(* BikePageClassifier.is_bike_page.  A URL is the base URL followed by     *)
(* path segments, with or without a closing slash; a content is a          *)
(* sequence of words.                                                      *)
(***************************************************************************)
PathSegments == {"bikes", "BIKES", "insights", "compare", "dealers"}
ContentWords == {"torque", "TORQUE", "bore", "stroke", "the"}

\* str.lower() on the segments and words of the model
LowerWord(w) ==
    CASE w = "BIKES" -> "bikes"
      [] w = "TORQUE" -> "torque"
      [] OTHER -> w

\* self.bike_url_patterns: the segments they name; the first four patterns
\* end with a slash, '/insights' and '/stories' do not
SlashedPatterns == {"bike", "bikes", "motorcycle", "motorcycles", "model", "models",
                    "heritage"}
OpenPatterns == {"insights", "stories"}
\* ['/compare', '/list', '/all', '/browse']
Exclusions == {"compare", "list", "all", "browse"}

spec_keywords ==
    {"displacement", "horsepower", "torque", "wheelbase", "fuel capacity", "seat height",
     "dry weight", "wet weight", "engine type", "bore", "stroke", "compression"}

\* re.search(pattern, url_lower) for some pattern of bike_url_patterns
MatchesBikePattern(url) ==
    \E i \in DOMAIN url.segments :
        \/ /\ LowerWord(url.segments[i]) \in SlashedPatterns
           /\ i < Len(url.segments) \/ url.slash
        \/ LowerWord(url.segments[i]) \in OpenPatterns

\* any(exclude in url_lower for exclude in [...])
MatchesExclusion(url) ==
    \E i \in DOMAIN url.segments : LowerWord(url.segments[i]) \in Exclusions

\* sum(1 for keyword in spec_keywords if keyword in content_lower)
spec_count(page_content) ==
    Cardinality({k \in spec_keywords :
                    \E i \in DOMAIN page_content : LowerWord(page_content[i]) = k})

is_bike_page(url, page_content) ==
    IF MatchesBikePattern(url) THEN ~MatchesExclusion(url)
    ELSE IF page_content = <<>> THEN FALSE
    ELSE spec_count(page_content) >= 3

InitBikePage ==
    /\ Standalone
    /\ NoSiteCrawl
    /\ args \in [url : [segments : SeqsUpTo(PathSegments, MaxSegments), slash : BOOLEAN],
                 page_content : SeqsUpTo(ContentWords, MaxWords)]
    /\ result = <<>>
    /\ fpc = "call"

IsBikePage ==
    /\ fpc = "call"
    /\ result' = is_bike_page(args.url, args.page_content)
    /\ fpc' = "returned"
    /\ UNCHANGED args
    /\ CallFrame

NextBikePage == IsBikePage

SpecBikePage == InitBikePage /\ [][NextBikePage]_vars

(***************************************************************************)
(* processors/normalizer.py: DataNormalizer._normalize_specifications on a *)
(* raw_specs dict.  A raw value is a text together with what               *)
(* parse_spec_value makes of it; a normalized value is None, a text or a   *)
(* number in hundredths.                                                   *)
(***************************************************************************)
\* self.field_mappings, in the order of the dict
field_mappings ==
    <<<<"engine size", "displacement_cc">>, <<"displacement", "displacement_cc">>,
      <<"capacity", "displacement_cc">>, <<"bore", "bore_mm">>, <<"stroke", "stroke_mm">>,
      <<"compression", "compression_ratio">>, <<"compression ratio", "compression_ratio">>,
      <<"power", "max_power_kw">>, <<"max power", "max_power_kw">>,
      <<"maximum power", "max_power_kw">>, <<"horsepower", "max_power_kw">>,
      <<"torque", "max_torque_nm">>, <<"max torque", "max_torque_nm">>,
      <<"maximum torque", "max_torque_nm">>, <<"fuel system", "fuel_system">>,
      <<"ignition", "ignition">>, <<"starter", "starter">>, <<"lubrication", "lubrication">>,
      <<"engine type", "type">>, <<"transmission", "type">>, <<"gearbox", "type">>,
      <<"clutch", "clutch">>, <<"final drive", "final_drive">>, <<"frame", "frame_type">>,
      <<"frame type", "frame_type">>, <<"front suspension", "front_suspension">>,
      <<"rear suspension", "rear_suspension">>, <<"front brake", "front_brake">>,
      <<"rear brake", "rear_brake">>, <<"front tire", "front_tire">>,
      <<"front tyre", "front_tire">>, <<"rear tire", "rear_tire">>,
      <<"rear tyre", "rear_tire">>, <<"length", "length_mm">>, <<"width", "width_mm">>,
      <<"height", "height_mm">>, <<"wheelbase", "wheelbase_mm">>,
      <<"ground clearance", "ground_clearance_mm">>, <<"seat height", "seat_height_mm">>,
      <<"dry weight", "dry_weight_kg">>, <<"wet weight", "wet_weight_kg">>,
      <<"fuel capacity", "fuel_capacity_liters">>,
      <<"tank capacity", "fuel_capacity_liters">>, <<"top speed", "top_speed_kmh">>,
      <<"max speed", "top_speed_kmh">>, <<"maximum speed", "top_speed_kmh">>,
      <<"0-100", "acceleration_0_100_kmh_sec">>,
      <<"0-100 km/h", "acceleration_0_100_kmh_sec">>,
      <<"fuel consumption", "fuel_consumption_liters_per_100km">>,
      <<"battery", "battery_voltage">>, <<"alternator", "alternator">>,
      <<"headlight", "headlight">>, <<"tail light", "tail_light">>>>

KnownKeys == {field_mappings[i][1] : i \in DOMAIN field_mappings}

\* raw keys no entry of the table equals
UnmappedKeys == {"gear", "rear tyre size", "max power output", "colour"}

\* raw_key.lower().strip() on the raw keys of the model
KeyLower(raw_key) == IF raw_key = "Gearbox " THEN "gearbox" ELSE raw_key

RawKeys == KnownKeys \cup UnmappedKeys \cup {"Gearbox "}

\* "a in b" between a key of the table and an unmapped key of the model
IsSubstring(a, b) ==
    <<a, b>> \in {<<"rear tyre", "rear tyre size">>, <<"power", "max power output">>,
                  <<"max power", "max power output">>, <<"gear", "gearbox">>}

\* self.field_mappings.get(key_lower); NULL for None
Mapped(key) ==
    IF key \in KnownKeys
    THEN field_mappings[CHOOSE i \in DOMAIN field_mappings : field_mappings[i][1] = key][2]
    ELSE NULL

\* _fuzzy_match_field: the first entry of the table that holds the key or is
\* held by it
fuzzy_match_field(key) ==
    LET hits == {i \in DOMAIN field_mappings :
                    \/ field_mappings[i][1] = key
                    \/ IsSubstring(field_mappings[i][1], key)
                    \/ IsSubstring(key, field_mappings[i][1])}
    IN  IF hits = {} THEN NULL
        ELSE field_mappings[CHOOSE i \in hits : \A j \in hits : i <= j][2]

\* _get_target_unit: unit_map.get(field_name); NULL for None
get_target_unit(field_name) ==
    CASE field_name = "displacement_cc" -> "cc"
      [] field_name \in {"bore_mm", "stroke_mm", "length_mm", "width_mm", "height_mm",
                         "wheelbase_mm", "ground_clearance_mm", "seat_height_mm"} -> "mm"
      [] field_name = "max_power_kw" -> "kW"
      [] field_name = "max_torque_nm" -> "Nm"
      [] field_name \in {"dry_weight_kg", "wet_weight_kg"} -> "kg"
      [] field_name = "fuel_capacity_liters" -> "L"
      [] field_name = "top_speed_kmh" -> "km/h"
      [] field_name = "fuel_consumption_liters_per_100km" -> "L/100km"
      [] OTHER -> NULL

\* normalized values
NoNormalized == [kind |-> "none", text |-> "", hundredths |-> 0]
AsText(t) == [kind |-> "text", text |-> t, hundredths |-> 0]
AsNumber(h) == [kind |-> "number", text |-> "", hundredths |-> h]

\* the raw values of the model with the (value, unit) parse_spec_value gives
\* for them; unit "" stands for None
RawValues ==
    {[text |-> "", parsed |-> FALSE, value |-> 0, unit |-> ""],
     [text |-> "Wet multi-plate", parsed |-> FALSE, value |-> 0, unit |-> ""],
     [text |-> "6-speed", parsed |-> TRUE, value |-> 6, unit |-> ""],
     [text |-> "150 hp", parsed |-> TRUE, value |-> 150, unit |-> "hp"],
     [text |-> "150 PS", parsed |-> TRUE, value |-> 150, unit |-> "PS"],
     [text |-> "85 cm", parsed |-> TRUE, value |-> 85, unit |-> "cm"]}

\* "return value": the parsed number as it is
Unconverted(value) == AsNumber(100 * value)

\* _normalize_value(raw_value, field_name): the values it can return
normalize_value(raw_value, field_name) ==
    IF raw_value.text = "" THEN {NoNormalized}
    ELSE IF ~raw_value.parsed THEN {AsText(raw_value.text)}
    ELSE LET target_unit == get_target_unit(field_name)
         IN  IF raw_value.unit # "" /\ target_unit # NULL
             THEN {IF converted.none THEN Unconverted(raw_value.value)
                   ELSE AsNumber(converted.value) :
                      converted \in convert_to_metric(raw_value.value, raw_value.unit,
                                                      target_unit)}
             ELSE {Unconverted(raw_value.value)}

\* the blocks in the order _assign_to_spec tests its field lists
AssignOrder ==
    <<"engine", "transmission", "chassis", "dimensions", "performance", "electrical">>

\* _assign_to_spec: setattr on the first block whose field list holds the name
assign_to_spec(field_name, value, specs) ==
    LET holding == {i \in DOMAIN AssignOrder : field_name \in Fields(AssignOrder[i])}
    IN  IF holding = {} THEN specs
        ELSE LET b == AssignOrder[CHOOSE i \in holding : \A j \in holding : i <= j]
             IN  [specs EXCEPT ![b][field_name] = value]

\* EngineSpecs(), TransmissionSpecs(), ...: every field None
EmptySpecs == [b \in Blocks |-> [f \in Fields(b) |-> NoNormalized]]

\* the field a raw key is mapped to: the table, then the fuzzy match
MappedField(raw_key) ==
    IF Mapped(KeyLower(raw_key)) # NULL THEN Mapped(KeyLower(raw_key))
    ELSE fuzzy_match_field(KeyLower(raw_key))

\* "for raw_key, raw_value in raw_specs.items()" from entry k on: the
\* specifications the loop can end with
RECURSIVE normalize_from(_, _, _)
normalize_from(specs, raw_specs, k) ==
    IF k > Len(raw_specs) THEN {specs}
    ELSE LET mapped_field == MappedField(raw_specs[k].key)
         IN  IF mapped_field = NULL THEN normalize_from(specs, raw_specs, k + 1)
             ELSE UNION {normalize_from(assign_to_spec(mapped_field, v, specs),
                                        raw_specs, k + 1) :
                            v \in normalize_value(raw_specs[k].value, mapped_field)}

normalize_specifications(raw_specs) == normalize_from(EmptySpecs, raw_specs, 1)

\* the keys the second entry of a dict is drawn from
PairKeys == {"engine type", "transmission", "gearbox", "max power", "seat height", "clutch",
             "colour"}

\* dicts of up to MaxRawSpecs entries, as the lists of their items
RawSpecs ==
    {<<>>} \cup {<<e>> : e \in [key : RawKeys, value : RawValues]}
    \cup (IF MaxRawSpecs < 2 THEN {}
          ELSE {<<[key |-> k[1], value |-> v[1]], [key |-> k[2], value |-> v[2]]>> :
                   k \in {kk \in RawKeys \X PairKeys : kk[1] # kk[2]},
                   v \in RawValues \X RawValues})

InitNormalize ==
    /\ Standalone
    /\ NoSiteCrawl
    /\ args \in RawSpecs
    /\ result = <<>>
    /\ fpc = "call"

NormalizeSpecifications ==
    /\ fpc = "call"
    /\ result' \in normalize_specifications(args)
    /\ fpc' = "returned"
    /\ UNCHANGED args
    /\ CallFrame

NextNormalize == NormalizeSpecifications

SpecNormalize == InitNormalize /\ [][NextNormalize]_vars

(***************************************************************************)
(* crawler/classifier.py: extract_model_info and the classification loop   *)
(* of crawl.  A URL is the list of its path segments below the host; crawl *)
(* passes "" as the page content.                                          *)
(***************************************************************************)
UrlSegments == {"ww", "bikes", "panigale-v4", "scrambler", "2024", "specs", "gallery",
                "features", "stories"}
PageTypeSegments == {"specs", "gallery", "features", "stories"}
Host == "oem.example"

\* re.match(r'^\d{4}$', segment)
IsYearLike(segment) == segment = "2024"

\* model_slug.replace('-', ' ').replace('_', ' ').title()
Title(model_slug) ==
    CASE model_slug = "panigale-v4" -> "Panigale V4"
      [] model_slug = "scrambler" -> "Scrambler"
      [] model_slug = "ww" -> "Ww"
      [] model_slug = "bikes" -> "Bikes"
      [] model_slug = "specs" -> "Specs"
      [] model_slug = "gallery" -> "Gallery"
      [] model_slug = "features" -> "Features"
      [] model_slug = "stories" -> "Stories"

\* _extract_model_from_url: the segment after the first of 'bikes',
\* 'motorcycles', 'models', 'heritage' that is followed by one that is not
\* year-like
extract_model_from_url(url) ==
    LET at == {i \in 1..(Len(url) - 1) :
                  /\ url[i] \in {"bikes", "motorcycles", "models", "heritage"}
                  /\ ~IsYearLike(url[i + 1])}
    IN  IF at = {} THEN NULL
        ELSE Title(url[(CHOOSE i \in at : \A j \in at : i <= j) + 1])

\* _extract_year_from_url: re.search(r'/(\d{4})(?:/|$)', url), kept if it
\* lies in 1900..2030
extract_year_from_url(url) ==
    IF \E i \in DOMAIN url : IsYearLike(url[i]) THEN "2024" ELSE NULL

\* r'/(s|r|sp|rs|rr|abs|se|limited|edition)' at the slash before a segment:
\* the first alternative the segment starts with, upper-cased
VariantAtSlash(segment) ==
    CASE segment \in {"specs", "stories", "scrambler"} -> "S"
      [] OTHER -> NULL

\* _extract_variant(url, ""): the leftmost match of the first pattern in
\* url.lower(), the slash before the host included; the second pattern
\* holds capitals only and matches no lower-cased text; "if content:" is
\* false
extract_variant(url) ==
    LET scanned == <<Host>> \o url
        at == {i \in DOMAIN scanned : VariantAtSlash(scanned[i]) # NULL}
    IN  IF at = {} THEN NULL
        ELSE VariantAtSlash(scanned[CHOOSE i \in at : \A j \in at : i <= j])

\* extract_model_info(url, ""): None unless the URL gives a model
extract_model_info(url) ==
    IF extract_model_from_url(url) = NULL THEN NoModelInfo
    ELSE [model |-> extract_model_from_url(url), year |-> extract_year_from_url(url),
          variant |-> extract_variant(url)]

\* get_page_type(url, ""): the first page type one of whose indicators is in
\* the URL, 'main' otherwise
get_page_type(url) ==
    IF "specs" \in Range(url) THEN "specs"
    ELSE IF "gallery" \in Range(url) THEN "gallery"
    ELSE IF "features" \in Range(url) THEN "features"
    ELSE IF "stories" \in Range(url) THEN "stories"
    ELSE "main"

\* "for url in discovered_urls[:50]": the page dicts of the bike pages that
\* have a model
RECURSIVE classify(_)
classify(urls) ==
    IF urls = <<>> THEN <<>>
    ELSE LET url == Head(urls)
         IN  (IF is_bike_page([segments |-> url, slash |-> FALSE], <<>>)
                 /\ extract_model_info(url) # NoModelInfo
              THEN <<[url |-> url, page_type |-> get_page_type(url),
                      model_info |-> extract_model_info(url)]>>
              ELSE <<>>) \o classify(Tail(urls))

\* a page and the page below it that the page-type segment names
InitClassify ==
    /\ Standalone
    /\ NoSiteCrawl
    /\ args \in [url : SeqsUpTo(UrlSegments, MaxPathLen), page : PageTypeSegments]
    /\ result = <<>>
    /\ fpc = "call"

\* crawl with discovered_urls = [url, url/page]: classification and grouping
ClassifyAndGroup ==
    /\ fpc = "call"
    /\ result' = group_related_pages(classify(<<args.url, Append(args.url, args.page)>>), <<>>)
    /\ fpc' = "returned"
    /\ UNCHANGED args
    /\ CallFrame

NextClassify == ClassifyAndGroup

SpecClassify == InitClassify /\ [][NextClassify]_vars

(***************************************************************************)
(* One pass of _discover_via_link_following on its own, on any site: the   *)
(* links of a page are chosen anew at every navigation, which covers every *)
(* link graph over the pages of the model, cycles included.                *)
(***************************************************************************)
InitBfs ==
    /\ InitEngine({Absent})
    /\ unwritable = NULL
    /\ pc = "bfs_start"
    /\ cpc = "off"
    /\ mpc = "off"
    /\ pages_data = <<>>
    /\ pages_in = <<>>
    /\ NoCallPending
    /\ NoTask
    /\ NoSiteCrawl

NextBfs ==
    \/ BfsStart
    \/ BfsStep
    \/ BfsDone

\* page.goto carries timeout=30000 and every other await of the loop ends or
\* raises, so the coroutine is resumed after each of them
SpecBfs == InitBfs /\ [][NextBfs]_vars /\ WF_vars(NextBfs)

(***************************************************************************)
(* Properties of the discovery engine                                      *)
(***************************************************************************)

\* C1: on a resumed run no discovery strategy issues a page navigation to a
\* URL that is in the visited_urls set load_state loaded.
NoNavigationToVisited == revisited = {}

\* C4: within one call of discover_all_pages no URL is yielded more than
\* once, whether it is repeated in the sitemap or found by several
\* strategies.
YieldedAtMostOnce == \A url \in Pages : yield_count[url] <= 1

\* C5: visited_urls is a subset of discovered_urls in every state reachable
\* by load_state of any matching state file, strategy yields and save_state.
VisitedSubsetDiscovered == visited_urls \subseteq discovered_urls

\* C6: load_state on an unreadable file, a corrupt file (a JSON file with a
\* URL list of the wrong shape included) or a file of another base_url
\* leaves visited_urls, discovered_urls and pending_urls as they were.
Discarded(f) ==
    \/ f.kind \in {"unreadable", "corrupt"}
    \/ /\ f.kind = "json"
       /\ \/ f.base_url # BaseUrl
          \/ Raises(f.visited_urls) \/ Raises(f.discovered_urls) \/ Raises(f.pending_urls)

BadFileLeavesStateAlone ==
    [][(EngineLoad /\ Discarded(state_file))
          => UNCHANGED <<visited_urls, discovered_urls, pending_urls>>]_vars

\* C7: discover_all_pages ends with the fatal site-inaccessible error only
\* if every strategy failed to reach the site; with the browser denied and
\* the sitemap reachable the run goes on and the sitemap's URLs are yielded.
FatalOnlyIfNothingReachable == pc = "fatal" => ~sitemap_live

\* C9: between any two consecutive page navigations of the discovery engine
\* a wait of at least rate_limit_seconds takes place.
NavigationsRateLimited == ~short_gap


(***************************************************************************)
(* Properties of crawl and the command line                                *)
(***************************************************************************)
\* C8: when discovery ends with the fatal site-inaccessible error, the run
\* of the command line ends with a non-zero exit status.
FatalSurfacesAsNonZeroExit ==
    (cpc = "exited" /\ pc = "fatal") => exit_code # 0

\* the groups of every classified URL that discovery yielded
AllGroups == group_related_pages(SelectSeq(crawl_urls, Classified), <<>>)

HasExtractablePage(g) == \E k \in 1..Len(g.pages) : ExtractOk(g.pages[k])

\* C10: when crawl has completed, the merged record of every entity group
\* with at least one successfully extractable page has been handed to the
\* markdown writer and to the metadata writer, however many groups there are.
EveryExtractedGroupHanded ==
    (cpc = "exited" /\ completed) =>
        \A j \in 1..Len(AllGroups) :
            HasExtractablePage(AllGroups[j]) =>
                {<<AllGroups[j].key, "markdown">>, <<AllGroups[j].key, "metadata">>}
                    \subseteq handed


(***************************************************************************)
(* Properties of merge_bike_data                                           *)
(***************************************************************************)
\* the value record bd has for field f of block b, None if it has none
FieldOf(bd, b, f) ==
    IF bd.specifications[b] = NoBlock THEN None ELSE bd.specifications[b][f]

\* the records of lst that have the field non-null
Holders(lst, b, f) == {i \in 1..Len(lst) : FieldOf(lst[i].bike_data, b, f) # None}

\* those of them whose page type has the highest priority
TopHolders(lst, b, f) ==
    {i \in Holders(lst, b, f) :
        \A j \in Holders(lst, b, f) :
            Priority(lst[j].page_type) <= Priority(lst[i].page_type)}

First(S) == CHOOSE i \in S : \A j \in S : i <= j

MergedGroup == mpc = "returned" /\ Len(pages_in) >= 2

\* C2 as stated: for two or more records every spec field of the result
\* equals the value of the field in the highest-priority record that has
\* it non-null, whichever the order of the input list, that is, in each of
\* the records of that priority.
MergedFieldFromHighestPriority ==
    MergedGroup =>
        \A b \in Blocks : \A f \in Fields(b) :
            \A i \in TopHolders(pages_in, b, f) :
                FieldOf(merged, b, f) = FieldOf(pages_in[i].bike_data, b, f)

\* C2: for two or more records every spec field of the result equals the
\* value of the field in the first record of the input list among the
\* records of the highest priority that have it non-null, and is null when
\* no record has it.
MergedFieldFromFirstOfHighestPriority ==
    MergedGroup =>
        \A b \in Blocks : \A f \in Fields(b) :
            FieldOf(merged, b, f) =
                IF Holders(pages_in, b, f) = {} THEN None
                ELSE FieldOf(pages_in[First(TopHolders(pages_in, b, f))].bike_data, b, f)

\* pages [main, specs, gallery] whose main and specs pages differ on
\* max_power_kw have been merged, and the result has the specs page's value
SpecsValueWins ==
    /\ MergedGroup
    /\ Len(pages_in) = 3
    /\ <<pages_in[1].page_type, pages_in[2].page_type, pages_in[3].page_type>>
           = <<"main", "specs", "gallery">>
    /\ FieldOf(pages_in[1].bike_data, "engine", "max_power_kw") = 1
    /\ FieldOf(pages_in[2].bike_data, "engine", "max_power_kw") = 2
    /\ FieldOf(pages_in[3].bike_data, "engine", "max_power_kw") = 1
    /\ FieldOf(merged, "engine", "max_power_kw") = 2

\* the accumulator of merge_bike_data after the k-th record of the sorted list
Accumulator(lst, k) ==
    MergeFrom([merged |-> lst[1].bike_data, shared |-> [b \in Blocks |-> 0]],
              SubSeq(lst, 1, k), 2).merged

\* C12: at every step of merge_bike_data a spec field that is non-null in
\* the accumulator keeps its value, the last accumulator is the result, and
\* a field of the result is null only if it is null in every record.
MergeIsFillOnly ==
    MergedGroup =>
        /\ \A lst \in {SortedByPriority(pages_in)} :
              /\ \A step \in {<<Accumulator(lst, k - 1), Accumulator(lst, k)>> :
                                  k \in 2..Len(lst)} :
                    \A b \in Blocks : \A f \in Fields(b) :
                        FieldOf(step[1], b, f) # None =>
                            FieldOf(step[2], b, f) = FieldOf(step[1], b, f)
              /\ Accumulator(lst, Len(lst)).specifications = merged.specifications
        /\ \A b \in Blocks : \A f \in Fields(b) :
              FieldOf(merged, b, f) = None => Holders(pages_in, b, f) = {}

\* pages [specs, main, gallery]: the field is null on the specs page, filled
\* from the main page and kept against the gallery page's other value
FilledThenKept ==
    /\ MergedGroup
    /\ Len(pages_in) = 3
    /\ <<pages_in[1].page_type, pages_in[2].page_type, pages_in[3].page_type>>
           = <<"specs", "main", "gallery">>
    /\ FieldOf(pages_in[1].bike_data, "dimensions", "seat_height_mm") = None
    /\ FieldOf(pages_in[2].bike_data, "dimensions", "seat_height_mm") = 2
    /\ FieldOf(pages_in[3].bike_data, "dimensions", "seat_height_mm") = 1
    /\ FieldOf(merged, "dimensions", "seat_height_mm") = 2

\* C11: merge_bike_data on a list of exactly one record returns that record
\* with every field as it was, the lists in their order and with their
\* repetitions.
SingleRecordReturnedAsIs ==
    (mpc = "returned" /\ Len(pages_in) = 1) =>
        /\ merged = pages_in[1].bike_data
        /\ pages_data = pages_in

\* a single record whose lists hold repetitions and unstripped texts has
\* been returned with them
SingleRecordWithRepetitions ==
    /\ mpc = "returned"
    /\ Len(pages_in) = 1
    /\ pages_in[1].bike_data.source_urls = <<"url-1", "url-1">>
    /\ merged.source_urls = <<"url-1", "url-1">>
    /\ merged.images = <<"img-1", "img-1">>
    /\ merged.features = <<"abs", " abs", "">>

(***************************************************************************)
(* Properties of the image downloader                                      *)
(***************************************************************************)
\* C3: no content hash has been written to two different files, and a call
\* whose bytes hash to a digest seen before writes no file and returns no
\* path.
HashWrittenToOneFile ==
    /\ \A a \in stored : \A b \in stored : a[1] = b[1] => a[2] = b[2]
    /\ (last_call.status = "fetched" /\ last_call.seen) =>
            (~last_call.wrote /\ last_call.result = NULL)

\* a content that was written before has been fetched again and skipped
RepeatedContentSkipped ==
    /\ last_call.status = "fetched"
    /\ last_call.seen
    /\ \E a \in stored : a[1] = last_call.hash


(***************************************************************************)
(* Properties of functions called on their own                             *)
(***************************************************************************)
\* C13: normalize_url is idempotent: normalizing a normalized URL, absolute,
\* scheme-less or relative, gives it back.
NormalizeUrlIdempotent ==
    fpc = "returned again" => result = args

\* the pages of args that have an identity
Identified(p) == p.model_info # NoModelInfo

\* C14: group_related_pages leaves out every page without identity, puts
\* every other page in exactly one group, the one keyed by (manufacturer,
\* model, year, variant) with null for a year or variant the page has not,
\* and keeps inside each group the order of the input list.
GroupingIsAFold ==
    fpc = "returned" =>
        /\ \A i \in DOMAIN args :
              LET holding == {j \in DOMAIN result : args[i] \in Range(result[j].pages)}
              IN  IF Identified(args[i])
                  THEN /\ Cardinality(holding) = 1
                       /\ \A j \in holding :
                             result[j].key = <<Manufacturer, args[i].model_info.model,
                                               args[i].model_info.year,
                                               args[i].model_info.variant>>
                  ELSE holding = {}
        /\ \A j \in DOMAIN result :
              result[j].pages =
                  SelectSeq(args, LAMBDA p : IF Identified(p)
                                             THEN group_key(p) = result[j].key ELSE FALSE)
        /\ \A j, k \in DOMAIN result : result[j].key = result[k].key => j = k

\* three pages, the second without identity: the first and the third share
\* a group whose key has neither year nor variant
GroupedAroundUnidentified ==
    /\ fpc = "returned"
    /\ Len(args) = 3
    /\ ~Identified(args[2])
    /\ Len(result) = 1
    /\ result[1].key = <<Manufacturer, ModelName(1), NULL, NULL>>
    /\ result[1].pages = <<args[1], args[3]>>

SaveStateOnEveryExit ==
    (browser_up /\ tpc \in {"returned", "cancelled", "raised"}) => exit_saves >= 1

\* interrupted in the try block and again during the cleanup, and saved
InterruptedTwiceAndSaved ==
    /\ tpc = "cancelled"
    /\ browser_up
    /\ interrupts = 2
    /\ exit_saves = 1
    /\ state_file = SavedFile

\* C17: at every point of the page loop of SiteCrawler.crawl at most one
\* batch of N = 5 URLs marked visited in memory is missing from the state
\* saved last.
AtMostOneBatchUnsaved ==
    Cardinality(sc_visited_urls \ sc_state_file) <= SaveEvery

\* the text holds no numeral that float() accepts
HoldsNoNumber(text) ==
    \A i \in DOMAIN text : \A j \in i..Len(text) :
        (\A k \in i..j : text[k] \in NumChars) => Float(SubSeq(text, i, j)).raised

\* C18: parse_spec_value never ends with an error, and for a text that
\* holds no parseable number it returns (null, null).
ParseSpecValueNeverRaises ==
    fpc = "returned" =>
        /\ ~result.raised
        /\ HoldsNoNumber(args) => (result.value = NoValue /\ result.unit = <<>>)

\* the factor of the unit pair a conversion rule matches and the decimals
\* of its result; NoRule when no rule matches
NoRule == [factor |-> [num |-> 0, den |-> 1], decimals |-> 2]

RuleOf(unit, target_unit) ==
    LET u == LowerStripped(unit)
        t == LowerStripped(target_unit)
    IN  IF u \in Units.power /\ t \in Targets.power
        THEN [factor |-> HP_TO_KW, decimals |-> 2]
        ELSE IF u \in Units.torque /\ t \in Targets.torque
        THEN [factor |-> LBFT_TO_NM, decimals |-> 2]
        ELSE IF u \in Units.inch /\ t \in Targets.length
        THEN [factor |-> INCH_TO_MM, decimals |-> 1]
        ELSE IF u \in Units.foot /\ t \in Targets.length
        THEN [factor |-> FOOT_TO_MM, decimals |-> 1]
        ELSE IF u \in Units.weight /\ t \in Targets.weight
        THEN [factor |-> LBS_TO_KG, decimals |-> 2]
        ELSE IF u \in Units.speed /\ t \in Targets.speed
        THEN [factor |-> MPH_TO_KMH, decimals |-> 2]
        ELSE IF u \in Units.volume /\ t \in Targets.volume
        THEN [factor |-> GALLON_TO_LITER, decimals |-> 2]
        ELSE IF u \in Units.consumption /\ t \in Targets.consumption
        THEN [factor |-> MPG_TO_L100KM, decimals |-> 2]
        ELSE NoRule

\* q is a whole number nearest to n / d
IsNearest(q, n, d) == 2 * (q * d - n) >= 0 - d /\ 2 * (q * d - n) <= d

\* r is value * factor rounded to the decimals of the rule
IsRoundedProduct(r, value, rule) ==
    /\ ~r.none
    /\ IF rule.decimals = 2
       THEN IsNearest(r.value, value * rule.factor.num, rule.factor.den \div 100)
       ELSE /\ r.value % 10 = 0
            /\ IsNearest(r.value \div 10, value * rule.factor.num, rule.factor.den \div 10)

\* r is factor / value rounded to 2 decimals, 0 for the value 0
IsRoundedQuotient(r, value, rule) ==
    /\ ~r.none
    /\ IF value = 0 THEN r.value = 0
       ELSE IsNearest(r.value, rule.factor.num, (rule.factor.den \div 100) * value)

\* the four conversions the claim lists
ListedConversions ==
    /\ (args = [value |-> 100, unit |-> "hp", target_unit |-> "kW"]) => result.value = 7457
    /\ (args = [value |-> 440, unit |-> "lbs", target_unit |-> "kg"]) => result.value = 19958
    /\ (args = [value |-> 100, unit |-> "mph", target_unit |-> "km/h"]) => result.value = 16093
    /\ (args = [value |-> 5, unit |-> "gallons", target_unit |-> "L"]) => result.value = 1893

\* what convert_to_metric returns outside the conversion rules
UnchangedOrNull ==
    IF LowerStripped(args.unit) = LowerStripped(args.target_unit)
    THEN result = Converted(100 * args.value)
    ELSE result = NotConverted

\* C19 as stated: for every unit pair a conversion rule matches the result
\* is the value times the fixed factor of the pair, rounded to 2 decimals
\* (1 decimal for millimetres); equal units give the value unchanged, and
\* no matching rule gives null.
ConvertAppliesFixedFactor ==
    fpc = "returned" =>
        LET rule == RuleOf(args.unit, args.target_unit)
        IN  /\ ListedConversions
            /\ IF rule # NoRule
               THEN IsRoundedProduct(result, args.value, rule)
               ELSE UnchangedOrNull

\* C19: for every unit pair a conversion rule matches, miles per gallon to
\* litres per 100 km apart, the result is the value times the fixed factor
\* of the pair, rounded to 2 decimals (1 decimal for millimetres); miles per
\* gallon give 235.214 divided by the value, rounded to 2 decimals, and 0
\* for the value 0; equal units give the value unchanged, and no matching
\* rule gives null.
ConvertAppliesFactorOrReciprocal ==
    fpc = "returned" =>
        LET rule == RuleOf(args.unit, args.target_unit)
        IN  /\ ListedConversions
            /\ IF rule.factor = MPG_TO_L100KM
               THEN IsRoundedQuotient(result, args.value, rule)
               ELSE IF rule # NoRule
               THEN IsRoundedProduct(result, args.value, rule)
               ELSE UnchangedOrNull

\* 5 gallons have been converted to 18.93 L
FiveGallonsConverted ==
    /\ fpc = "returned"
    /\ args = [value |-> 5, unit |-> "gallons", target_unit |-> "L"]
    /\ result = Converted(1893)

\* C20: is_bike_page is true exactly when the URL matches a product path
\* pattern and no exclusion pattern, or the content holds at least 3
\* distinct specification keywords.
BikePageIffPatternOrKeywords ==
    fpc = "returned" =>
        (result <=> \/ MatchesBikePattern(args.url) /\ ~MatchesExclusion(args.url)
                    \/ spec_count(args.page_content) >= 3)

(***************************************************************************)
(* Properties of the image loop                                            *)
(***************************************************************************)
\* a download_image call of the loop has just returned
ImageCallReturned == Len(img_results') = Len(img_results) + 1

\* C21: a download_image call that meets a status other than 200 or a
\* network failure returns no path, writes no file and leaves the hash set
\* alone, the loop goes on with the next image without a second attempt, and
\* the record is written only after every image of it has been attempted.
FailedDownloadContained ==
    [][/\ (ImageCallReturned /\ last_call'.status = "failed") =>
              /\ last_call'.result = NULL
              /\ files' = files
              /\ stored' = stored
              /\ image_hashes' = image_hashes
              /\ img_idx' = img_idx + 1
              /\ ipc' = "loop"
       /\ (ipc = "loop" /\ ipc' = "written") =>
              /\ Len(img_results') = img_n'
              /\ records_written' = records_written + 1]_vars

\* the first image of a record failed, the second was fetched and written,
\* and the record has been written
WrittenAfterFailedImage ==
    /\ ipc = "written"
    /\ Len(img_results) = 2
    /\ img_results[1].status = "failed"
    /\ img_results[2].status = "fetched"
    /\ img_results[2].result # NULL

\* C28: a file that a download_image call has written still holds the
\* content of that call: no later call, of this entity group or of another
\* one, has put other bytes at its path.
WrittenFileNeverOverwritten ==
    \A a \in stored : a[2] \in DOMAIN files /\ Sha256(files[a[2]]) = a[1]

\* C29: every hash of image_hashes belongs to a file that was written, so
\* that a content whose write failed is written by a later call.
EveryHashHasItsFile ==
    \A image_hash \in image_hashes : \E a \in stored : a[1] = image_hash

(***************************************************************************)
(* Properties of the link-following pass                                   *)
(***************************************************************************)
\* C22: during one pass of _discover_via_link_following no page is the
\* target of page.goto twice, a page being identified by its normalized URL;
\* this includes the key pages the pass starts from.
NoPageNavigatedTwiceInPass ==
    \A i \in DOMAIN pass_gotos : \A j \in DOMAIN pass_gotos :
        i # j => NormalizedURL(pass_gotos[i][1]) # NormalizedURL(pass_gotos[j][1])

\* C23: the pass ends on every site: the work list runs empty and the
\* discovered set is returned, and no entry deeper than max_depth is ever
\* navigated.
LinkFollowingTerminates ==
    /\ [](\A i \in DOMAIN pass_gotos : pass_gotos[i][2] <= BfsMaxDepth)
    /\ [](pc = "yield_bfs" => to_visit = <<>>)
    /\ <>(pc = "yield_bfs")

\* the pass has returned after a navigation at max_depth and a link that led
\* back to a page it had navigated, and its last navigation failed
ReturnedFromCyclicSite ==
    /\ pc = "yield_bfs"
    /\ waited = 0
    /\ \E i \in DOMAIN pass_gotos : pass_gotos[i][2] = BfsMaxDepth
    /\ Len(pass_gotos) > Cardinality({NormalizedURL(pass_gotos[i][1]) : i \in DOMAIN pass_gotos})

(***************************************************************************)
(* Properties of the merger: records of equal priority, the caller's list  *)
(***************************************************************************)
\* the records that hold field f of block b with the highest priority among
\* its holders, if that priority is not the highest of the list: records of
\* equal lower priority that hold a field the higher-priority records leave
\* null
EqualLowerHolders(lst, b, f) ==
    LET top == TopHolders(lst, b, f)
    IN  IF \E i \in top : \E h \in 1..Len(lst) :
              Priority(lst[h].page_type) > Priority(lst[i].page_type)
        THEN top ELSE {}

\* C24 as stated: of two records of equal lower priority that both hold a
\* field the higher-priority records leave null, the one processed last
\* gives the merged field its value.
LastOfEqualPriorityWins ==
    MergedGroup =>
        \A b \in Blocks : \A f \in Fields(b) :
            \A holders \in {EqualLowerHolders(pages_in, b, f)} :
                \A i \in holders : \A j \in holders :
                    i < j => FieldOf(merged, b, f) = FieldOf(pages_in[j].bike_data, b, f)

\* C24: of the records of equal lower priority that hold a field the
\* higher-priority records leave null, the one that comes first in the
\* caller's list, which is processed first, gives the merged field its value.
FirstOfEqualPriorityWins ==
    MergedGroup =>
        \A b \in Blocks : \A f \in Fields(b) :
            \A holders \in {EqualLowerHolders(pages_in, b, f)} :
                Cardinality(holders) >= 2 =>
                    FieldOf(merged, b, f)
                        = FieldOf(pages_in[First(holders)].bike_data, b, f)

\* pages [specs, main, main]: the specs page leaves max_power_kw null, the
\* main pages hold 1 and 2, and the result holds the 1 of the first of them
FirstMainPageWins ==
    /\ MergedGroup
    /\ Len(pages_in) = 3
    /\ <<pages_in[1].page_type, pages_in[2].page_type, pages_in[3].page_type>>
           = <<"specs", "main", "main">>
    /\ FieldOf(pages_in[1].bike_data, "engine", "max_power_kw") = None
    /\ FieldOf(pages_in[2].bike_data, "engine", "max_power_kw") = 1
    /\ FieldOf(pages_in[3].bike_data, "engine", "max_power_kw") = 2
    /\ FieldOf(merged, "engine", "max_power_kw") = 1

\* C30: merge_bike_data leaves its argument as it was: after the call the
\* caller's list holds the same records in the same order, with every field
\* of every record unchanged.
MergeLeavesArgumentAlone ==
    mpc = "returned" => pages_data = pages_in

(***************************************************************************)
(* Properties of the normalizer                                            *)
(***************************************************************************)
\* the entries of the dict whose raw key is one of keys
EntriesOf(keys) == {k \in DOMAIN args : KeyLower(args[k].key) \in keys}

\* C25: every field name the alias table can produce is a field of exactly
\* one of the six blocks, and the raw keys 'transmission' and 'gearbox' set
\* the type of the transmission block and leave the engine block as it is
\* without them.
AliasStoredInItsOwnBlock ==
    /\ \A i \in DOMAIN field_mappings :
          Cardinality({b \in Blocks : field_mappings[i][2] \in Fields(b)}) = 1
    /\ (fpc = "returned" /\ EntriesOf({"transmission", "gearbox"}) # {}) =>
          /\ \E k \in EntriesOf({"transmission", "gearbox"}) :
                result["transmission"]["type"]
                    \in normalize_value(args[k].value, "type")
          /\ result["engine"] \in
                {r["engine"] : r \in normalize_specifications(
                     SelectSeq(args, LAMBDA e :
                         KeyLower(e.key) \notin {"transmission", "gearbox"}))}

\* the value stored for the entry was parsed to a number whose unit
\* convert_to_metric has no rule for
NoRuleFor(entry) ==
    /\ MappedField(entry.key) # NULL
    /\ entry.value.parsed
    /\ entry.value.unit # ""
    /\ get_target_unit(MappedField(entry.key)) # NULL
    /\ convert_to_metric(entry.value.value, entry.value.unit,
                         get_target_unit(MappedField(entry.key))) = {NotConverted}

\* C26: a raw value parsed to a number whose unit has no conversion rule to
\* the target unit of its field is never stored as the bare number in that
\* field.
UnconvertedNumberNotStored ==
    fpc = "returned" =>
        \A k \in DOMAIN args :
            (NoRuleFor(args[k]) /\ \A j \in DOMAIN args : j > k =>
                                      MappedField(args[j].key) # MappedField(args[k].key)) =>
                \A b \in Blocks :
                    MappedField(args[k].key) \in Fields(b) =>
                        result[b][MappedField(args[k].key)]
                            # AsNumber(100 * args[k].value.value)

(***************************************************************************)
(* Properties of the classifier                                            *)
(***************************************************************************)
\* the URL ends in /bikes/<model>
IsModelPage(url) ==
    /\ Len(url) >= 2
    /\ url[Len(url) - 1] = "bikes"
    /\ url[Len(url)] \in {"panigale-v4", "scrambler"}

\* C27: the page .../bikes/<model> and the page below it named by a
\* page-type segment get the same model, year and variant from
\* extract_model_info and land in one entity group.
PageTypeSegmentKeepsGroup ==
    (fpc = "returned" /\ IsModelPage(args.url)) =>
        /\ extract_model_info(args.url) = extract_model_info(Append(args.url, args.page))
        /\ Len(result) = 1
        /\ Len(result[1].pages) = 2

====
